---- MODULE Spec2Model ----
(***************************************************************************)
(* Rotating connect-four: the networked game server (socket handlers over  *)
(* the maps games / gameToSockets / socketToGame) and the board engine     *)
(* (placeDisc, rotateBlock, checkWinner) it calls.                         *)
(***************************************************************************)
EXTENDS Integers, Sequences, FiniteSets, TLC

VARIABLES
    connected,      \* sockets whose handlers are registered (io.on('connection'))
    games,          \* Map<string, OnlineGameState>
    gameToSockets,  \* Map<string, Set<string>>
    socketToGame,   \* Map<string, string>
    nextGameId,     \* the next identifier uuidv4() hands out
    emitted,        \* the messages the last handler emitted, in order
    lastReq,        \* the intent the last handler served, and how it ended
    joinCount,      \* membership intents counted against the model's budget
    moveCount,      \* placeDisc and rotateBlock intents accepted
    store,          \* the local session: the state held by useGameStore
    timers,         \* the local session's pending setTimeout callbacks
    call,           \* the last application of a pure function: arguments and result
    placements,     \* per game, the placements accepted since creation or the last reset
    client          \* the fields of one SocketClient; its socket is null or the socket's state

vars == <<connected, games, gameToSockets, socketToGame, nextGameId, emitted, lastReq, joinCount, moveCount, store, timers, call, placements, client>>

----------------------------------------------------------------------------
(* Bounds of the model *)

Conns == {"s1", "s2", "s3"}

MaxGames == 2

MaxSpectators == 2

MaxJoins == 3

MaxMoves == 1

MaxMemberOps == 2

MaxPlayMoves == 4

MaxLocalMoves == 6

MaxLocalOps == 2

MaxAITimers == 2

GameIds == 1..MaxGames

(* Program constants *)

MaxRotations == 3

BoardSize == 4

----------------------------------------------------------------------------
(* Values *)

Null == "null"

Vacated == ""

Falsy(x) == x \in {Null, Vacated}

Pos == (0..(BoardSize - 1)) \X (0..(BoardSize - 1))

Blocks == 0..3

Put(f, k, v) == [x \in (DOMAIN f) \cup {k} |-> IF x = k THEN v ELSE f[x]]

Drop(f, k) == [x \in (DOMAIN f) \ {k} |-> f[x]]

EmptyMap == [x \in {} |-> Null]

SetMin(S) == CHOOSE x \in S : \A y \in S : x <= y

----------------------------------------------------------------------------
(* Board engine *)

initializeBoard == [p \in Pos |-> Null]

isValidMove(board, move) ==
    /\ move.row >= 0
    /\ move.row < 4
    /\ move.col >= 0
    /\ move.col < 4
    /\ board[<<move.row, move.col>>] = Null

\* placeDisc testing the range of the move only: an occupied cell is overwritten.
placeDisc_overwrites(board, move, player) ==
    IF ~(move.row >= 0 /\ move.row < 4 /\ move.col >= 0 /\ move.col < 4)
    THEN board
    ELSE [board EXCEPT ![<<move.row, move.col>>] = player]

\* An invalid move returns the board it was given; a valid one returns a copy
\* that differs in the target cell, so value equality with the input is the
\* handler's reference test.
placeDisc(board, move, player) ==
    IF ~isValidMove(board, move)
    THEN board
    ELSE [board EXCEPT ![<<move.row, move.col>>] = player]

\* getBlock with the row and the column of the block exchanged.
getBlock_transposed(board, blockIndex) ==
    LET startRow == (blockIndex % 2) * 2
        startCol == (blockIndex \div 2) * 2
    IN  [cells |-> [p \in (0..1) \X (0..1) |-> board[<<startRow + p[1], startCol + p[2]>>]],
         startRow |-> startRow,
         startCol |-> startCol]

getBlock(board, blockIndex) ==
    LET startRow == (blockIndex \div 2) * 2
        startCol == (blockIndex % 2) * 2
    IN  [cells |-> [p \in (0..1) \X (0..1) |-> board[<<startRow + p[1], startCol + p[2]>>]],
         startRow |-> startRow,
         startCol |-> startCol]

\* rotateBlock writing into the board it reads from: the second and the fourth
\* assignment read a cell that has just been overwritten.
rotateBlock_inPlace(board, blockIndex, direction) ==
    LET block == getBlock(board, blockIndex)
        cells == block.cells
        startRow == block.startRow
        startCol == block.startCol
    IN  IF direction = "clockwise"
        THEN [board EXCEPT
                ![<<startRow, startCol>>] = cells[<<1, 0>>],
                ![<<startRow, startCol + 1>>] = cells[<<1, 0>>],
                ![<<startRow + 1, startCol>>] = cells[<<1, 1>>],
                ![<<startRow + 1, startCol + 1>>] = cells[<<1, 0>>]]
        ELSE [board EXCEPT
                ![<<startRow, startCol>>] = cells[<<0, 1>>],
                ![<<startRow, startCol + 1>>] = cells[<<1, 1>>],
                ![<<startRow + 1, startCol>>] = cells[<<0, 1>>],
                ![<<startRow + 1, startCol + 1>>] = cells[<<1, 0>>]]

rotateBlock(board, blockIndex, direction) ==
    LET block == getBlock(board, blockIndex)
        cells == block.cells
        startRow == block.startRow
        startCol == block.startCol
    IN  IF direction = "clockwise"
        THEN [board EXCEPT
                ![<<startRow, startCol>>] = cells[<<1, 0>>],
                ![<<startRow, startCol + 1>>] = cells[<<0, 0>>],
                ![<<startRow + 1, startCol>>] = cells[<<1, 1>>],
                ![<<startRow + 1, startCol + 1>>] = cells[<<0, 1>>]]
        ELSE [board EXCEPT
                ![<<startRow, startCol>>] = cells[<<0, 1>>],
                ![<<startRow, startCol + 1>>] = cells[<<1, 1>>],
                ![<<startRow + 1, startCol>>] = cells[<<0, 0>>],
                ![<<startRow + 1, startCol + 1>>] = cells[<<1, 0>>]]

\* checkWinner without the test of the diagonal from the upper right corner.
checkWinner_noAntiDiagonal(board) ==
    LET rows == {row \in 0..3 :
                    /\ board[<<row, 0>>] # Null
                    /\ board[<<row, 0>>] = board[<<row, 1>>]
                    /\ board[<<row, 1>>] = board[<<row, 2>>]
                    /\ board[<<row, 2>>] = board[<<row, 3>>]}
        cols == {col \in 0..3 :
                    /\ board[<<0, col>>] # Null
                    /\ board[<<0, col>>] = board[<<1, col>>]
                    /\ board[<<1, col>>] = board[<<2, col>>]
                    /\ board[<<2, col>>] = board[<<3, col>>]}
    IN  IF rows # {} THEN board[<<SetMin(rows), 0>>]
        ELSE IF cols # {} THEN board[<<0, SetMin(cols)>>]
        ELSE IF /\ board[<<0, 0>>] # Null
                /\ board[<<0, 0>>] = board[<<1, 1>>]
                /\ board[<<1, 1>>] = board[<<2, 2>>]
                /\ board[<<2, 2>>] = board[<<3, 3>>]
             THEN board[<<0, 0>>]
        ELSE IF \A p \in Pos : board[p] # Null THEN "draw"
        ELSE Null

checkWinner(board) ==
    LET rows == {row \in 0..3 :
                    /\ board[<<row, 0>>] # Null
                    /\ board[<<row, 0>>] = board[<<row, 1>>]
                    /\ board[<<row, 1>>] = board[<<row, 2>>]
                    /\ board[<<row, 2>>] = board[<<row, 3>>]}
        cols == {col \in 0..3 :
                    /\ board[<<0, col>>] # Null
                    /\ board[<<0, col>>] = board[<<1, col>>]
                    /\ board[<<1, col>>] = board[<<2, col>>]
                    /\ board[<<2, col>>] = board[<<3, col>>]}
    IN  IF rows # {} THEN board[<<SetMin(rows), 0>>]
        ELSE IF cols # {} THEN board[<<0, SetMin(cols)>>]
        ELSE IF /\ board[<<0, 0>>] # Null
                /\ board[<<0, 0>>] = board[<<1, 1>>]
                /\ board[<<1, 1>>] = board[<<2, 2>>]
                /\ board[<<2, 2>>] = board[<<3, 3>>]
             THEN board[<<0, 0>>]
        ELSE IF /\ board[<<0, 3>>] # Null
                /\ board[<<0, 3>>] = board[<<1, 2>>]
                /\ board[<<1, 2>>] = board[<<2, 1>>]
                /\ board[<<2, 1>>] = board[<<3, 0>>]
             THEN board[<<0, 3>>]
        ELSE IF \A p \in Pos : board[p] # Null THEN "draw"
        ELSE Null

\* getBlockIndexFromPosition without the factor of the block row.
getBlockIndexFromPosition_unscaledRow(row, col) == (row \div 2) + (col \div 2)

getBlockIndexFromPosition(row, col) == (row \div 2) * 2 + (col \div 2)

----------------------------------------------------------------------------
(* Server state *)

NoMove == [row |-> -1, col |-> -1, player |-> Null]

NoRotation == [blockIndex |-> -1, direction |-> Null]

NoRotations == [b \in Blocks |-> 0]

Move(row, col) == [row |-> row, col |-> col]

Rotation(blockIndex, direction) == [blockIndex |-> blockIndex, direction |-> direction]

initialState(gameId, playerId) ==
    [gameId |-> gameId,
     board |-> initializeBoard,
     currentPlayer |-> "black",
     winner |-> Null,
     blockRotations |-> NoRotations,
     maxRotations |-> MaxRotations,
     lastMove |-> NoMove,
     lastRotation |-> NoRotation,
     isGameOver |-> FALSE,
     rotationMode |-> "manual",
     players |-> [black |-> playerId, white |-> Null],
     spectators |-> << >>,
     isWaiting |-> TRUE,
     isProcessingMove |-> FALSE]

\* One emitted message: `to` is a socket id, or "room" for io.to(gameId).
Msg(type, to, gameId, payload) ==
    [type |-> type, to |-> to, gameId |-> gameId, payload |-> payload]

Req(op, conn, gameId, result) ==
    [op |-> op, conn |-> conn, gameId |-> gameId, result |-> result]

NoPayload == "none"

----------------------------------------------------------------------------
(* joinGame *)

\* Faulty variant: a full game refuses spectators too.
joinGameFull_spectatorsToo(gameState, asSpectator) ==
    /\ ~Falsy(gameState.players.black)
    /\ ~Falsy(gameState.players.white)

\* Faulty variant: a join is never refused for want of a seat.
joinGameFull_never(gameState, asSpectator) == FALSE

joinGameFull(gameState, asSpectator) ==
    /\ ~asSpectator
    /\ ~Falsy(gameState.players.black)
    /\ ~Falsy(gameState.players.white)

joinGamePlayerType(gameState, asSpectator) ==
    IF asSpectator THEN "spectator"
    ELSE IF Falsy(gameState.players.black) THEN "black"
    ELSE IF Falsy(gameState.players.white) THEN "white"
    ELSE "spectator"

joinGameState(gameState, playerId, asSpectator) ==
    IF asSpectator
    THEN [gameState EXCEPT !.spectators = Append(@, playerId)]
    ELSE IF Falsy(gameState.players.black)
    THEN [gameState EXCEPT !.players.black = playerId]
    ELSE IF Falsy(gameState.players.white)
    THEN [gameState EXCEPT !.players.white = playerId, !.isWaiting = FALSE]
    ELSE gameState

----------------------------------------------------------------------------
(* placeDisc, rotateBlock, resetGame *)

\* Faulty variant: the requester is taken to be whoever is to move.
playerTypeOf_anyTurn(gameState, playerId) == gameState.currentPlayer

playerTypeOf(gameState, playerId) ==
    IF gameState.players.black = playerId THEN "black" ELSE "white"

\* Faulty variant: the turn is never handed over.
nextPlayer_stuck(currentPlayer) == currentPlayer

nextPlayer(currentPlayer) ==
    IF currentPlayer = "black" THEN "white" ELSE "black"

\* Faulty variant: the winner is recorded but the game is not ended.
withWinner_notOver(gameState) ==
    LET winner == checkWinner(gameState.board)
    IN  IF winner # Null
        THEN [gameState EXCEPT !.winner = winner]
        ELSE gameState

withWinner(gameState) ==
    LET winner == checkWinner(gameState.board)
    IN  IF winner # Null
        THEN [gameState EXCEPT !.winner = winner, !.isGameOver = TRUE]
        ELSE gameState

\* Faulty variant: the game-over test is missing.
placeDiscAccepted_afterEnd(gameState, playerId, move) ==
    /\ ~gameState.isWaiting
    /\ playerTypeOf(gameState, playerId) = gameState.currentPlayer
    /\ placeDisc(gameState.board, move, playerTypeOf(gameState, playerId)) # gameState.board

placeDiscAccepted(gameState, playerId, move) ==
    /\ ~(gameState.isGameOver \/ gameState.isWaiting)
    /\ playerTypeOf(gameState, playerId) = gameState.currentPlayer
    /\ placeDisc(gameState.board, move, playerTypeOf(gameState, playerId)) # gameState.board

autoRotate(gameState, move) ==
    IF gameState.rotationMode = "auto"
    THEN LET blockIndex == getBlockIndexFromPosition(move.row, move.col)
         IN  IF gameState.blockRotations[blockIndex] < gameState.maxRotations
             THEN [gameState EXCEPT
                     !.board = rotateBlock(@, blockIndex, "clockwise"),
                     !.blockRotations[blockIndex] = @ + 1,
                     !.lastRotation = [blockIndex |-> blockIndex, direction |-> "clockwise"]]
             ELSE gameState
    ELSE gameState

placeDiscState(gameState, playerId, move) ==
    LET playerType == playerTypeOf(gameState, playerId)
        placed == [gameState EXCEPT
                     !.board = placeDisc(@, move, playerType),
                     !.lastMove = [row |-> move.row, col |-> move.col, player |-> playerType]]
        decided == withWinner(autoRotate(placed, move))
    IN  [decided EXCEPT !.currentPlayer = nextPlayer(@)]

\* Faulty variant: the test of the rotation cap is missing.
rotateBlockResult_noCap(gameState, playerId, rotation) ==
    IF gameState.isGameOver \/ gameState.isWaiting THEN "rejected"
    ELSE IF playerTypeOf(gameState, playerId) # gameState.currentPlayer THEN "rejected"
    ELSE IF gameState.rotationMode # "manual" THEN "rejected"
    ELSE IF rotation.blockIndex \notin Blocks THEN "threw"
    ELSE "accepted"

\* "rejected": an early return; "threw": blockRotations[blockIndex] is undefined
\* for an index outside 0..3, the cap test is false and getBlock reads
\* board[startRow] of a row that does not exist.
rotateBlockResult(gameState, playerId, rotation) ==
    IF gameState.isGameOver \/ gameState.isWaiting THEN "rejected"
    ELSE IF playerTypeOf(gameState, playerId) # gameState.currentPlayer THEN "rejected"
    ELSE IF gameState.rotationMode # "manual" THEN "rejected"
    ELSE IF rotation.blockIndex \notin Blocks THEN "threw"
    ELSE IF gameState.blockRotations[rotation.blockIndex] >= gameState.maxRotations THEN "rejected"
    ELSE "accepted"

\* Faulty variant: a rotation is counted twice.
rotateBlockState_countedTwice(gameState, rotation) ==
    LET rotated == [gameState EXCEPT
                      !.board = rotateBlock(@, rotation.blockIndex, rotation.direction),
                      !.blockRotations[rotation.blockIndex] = @ + 2,
                      !.lastRotation = rotation]
        decided == withWinner(rotated)
    IN  [decided EXCEPT !.currentPlayer = nextPlayer(@)]

rotateBlockState(gameState, rotation) ==
    LET rotated == [gameState EXCEPT
                      !.board = rotateBlock(@, rotation.blockIndex, rotation.direction),
                      !.blockRotations[rotation.blockIndex] = @ + 1,
                      !.lastRotation = rotation]
        decided == withWinner(rotated)
    IN  [decided EXCEPT !.currentPlayer = nextPlayer(@)]

resetGameAllowed(gameState, playerId) ==
    ~(gameState.players.black # playerId /\ gameState.players.white # playerId)

\* Faulty variant: the rotation counts survive the reset.
resetGameState_keepsCounts(gameState) ==
    [gameState EXCEPT
        !.board = initializeBoard,
        !.currentPlayer = "black",
        !.winner = Null,
        !.lastMove = NoMove,
        !.lastRotation = NoRotation,
        !.isGameOver = FALSE]

resetGameState(gameState) ==
    [gameState EXCEPT
        !.board = initializeBoard,
        !.currentPlayer = "black",
        !.winner = Null,
        !.blockRotations = NoRotations,
        !.lastMove = NoMove,
        !.lastRotation = NoRotation,
        !.isGameOver = FALSE]

----------------------------------------------------------------------------
(* handlePlayerDisconnect *)

\* Faulty variant: the white seat is vacated without going back to waiting.
vacateSeat_stillPlaying(gameState, socketId) ==
    IF gameState.players.black = socketId
    THEN [gameState EXCEPT !.players.black = Vacated, !.isWaiting = TRUE]
    ELSE IF gameState.players.white = socketId
    THEN [gameState EXCEPT !.players.white = Vacated]
    ELSE [gameState EXCEPT !.spectators = SelectSeq(@, LAMBDA id : id # socketId)]

vacateSeat(gameState, socketId) ==
    IF gameState.players.black = socketId
    THEN [gameState EXCEPT !.players.black = Vacated, !.isWaiting = TRUE]
    ELSE IF gameState.players.white = socketId
    THEN [gameState EXCEPT !.players.white = Vacated, !.isWaiting = TRUE]
    ELSE [gameState EXCEPT !.spectators = SelectSeq(@, LAMBDA id : id # socketId)]

\* The maps and the messages after handlePlayerDisconnect(socketId, gameId).
\* The seat is vacated on the state object even when the game was just
\* removed from `games`; the broadcast carries that object.
handlePlayerDisconnect(socketId, gameId) ==
    IF gameId \notin DOMAIN games
    THEN [games |-> games, gameToSockets |-> gameToSockets,
          socketToGame |-> socketToGame, emitted |-> << >>]
    ELSE LET gameState == vacateSeat(games[gameId], socketId)
             hasSet == gameId \in DOMAIN gameToSockets
             remaining == IF hasSet THEN gameToSockets[gameId] \ {socketId} ELSE {}
             destroyed == hasSet /\ remaining = {}
         IN  [games |-> IF destroyed THEN Drop(games, gameId)
                        ELSE [games EXCEPT ![gameId] = gameState],
              gameToSockets |-> IF destroyed THEN Drop(gameToSockets, gameId)
                                ELSE IF hasSet THEN [gameToSockets EXCEPT ![gameId] = remaining]
                                ELSE gameToSockets,
              socketToGame |-> Drop(socketToGame, socketId),
              emitted |-> << Msg("gameState", "room", gameId, gameState) >>]

----------------------------------------------------------------------------
(* The local session: useGameStore *)

Infinity == "Infinity"

\* settings: only gameMode is read by the store's operations; aiDifficulty
\* stays at its default 'medium'.
initialGameState ==
    [board |-> initializeBoard,
     currentPlayer |-> "black",
     winner |-> Null,
     blockRotations |-> NoRotations,
     maxRotations |-> Infinity,
     lastMove |-> NoMove,
     lastRotation |-> NoRotation,
     isGameOver |-> FALSE,
     isProcessingMove |-> FALSE,
     gameMode |-> "pvp"]

\* rotation: the moves whose 1500 ms auto-rotation callback is pending, oldest
\* first; ai: pending 500 ms playAITurn callbacks; reset: pending 10 ms
\* resetGame callbacks of updateSettings.
NoTimers == [rotation |-> << >>, ai |-> 0, reset |-> 0]

\* No pure function has been applied yet.
NoCall == [fn |-> "none"]

\* A SocketClient as its constructor leaves it; sockets counts the calls of io().
NoClient ==
    [socket |-> Null, status |-> "disconnected", isConnecting |-> FALSE,
     gameId |-> Null, playerId |-> Null, reconnectAttempts |-> 0, sockets |-> 0]

\* The null a move-returning function of the AI gives when it has no move.
NullMove == Move(-1, -1)

rowMajor(p) == p[1] * 4 + p[2]

firstIn(S) == CHOOSE p \in S : \A q \in S : rowMajor(p) <= rowMajor(q)

lastIn(S) == CHOOSE p \in S : \A q \in S : rowMajor(p) >= rowMajor(q)

getAllPossibleMoves(board) == {p \in Pos : board[p] = Null}

findWinningMove(board, player) ==
    LET winning == {p \in getAllPossibleMoves(board) :
                       checkWinner([board EXCEPT ![p] = player]) = player}
    IN  IF winning = {} THEN NullMove ELSE Move(firstIn(winning)[1], firstIn(winning)[2])

findBlockingMove(board, player) ==
    findWinningMove(board, IF player = "black" THEN "white" ELSE "black")

priorityPositions ==
    << <<1, 1>>, <<1, 2>>, <<2, 1>>, <<2, 2>>, <<0, 0>>, <<0, 3>>, <<3, 0>>, <<3, 3>>,
       <<0, 1>>, <<0, 2>>, <<1, 0>>, <<1, 3>>, <<2, 0>>, <<2, 3>>, <<3, 1>>, <<3, 2>> >>

\* getStrategicMove without the test of the cell: the first priority position.
getStrategicMove_untested(board) ==
    Move(priorityPositions[1][1], priorityPositions[1][2])

getStrategicMove(board) ==
    LET valid == {i \in 1..Len(priorityPositions) : board[priorityPositions[i]] = Null}
    IN  IF valid = {} THEN NullMove
        ELSE Move(priorityPositions[SetMin(valid)][1], priorityPositions[SetMin(valid)][2])

\* Math.random() picks the index; the model draws the first or the last one.
getRandomMove(board, draw) ==
    LET possibleMoves == getAllPossibleMoves(board)
        picked == IF draw = "first" THEN firstIn(possibleMoves) ELSE lastIn(possibleMoves)
    IN  IF possibleMoves = {} THEN NullMove ELSE Move(picked[1], picked[2])

\* getAIMove(board, 'medium', 'white'): the moves it can return.
getAIMove(board, player) ==
    LET winningMove == findWinningMove(board, player)
        blockingMove == findBlockingMove(board, player)
    IN  IF winningMove # NullMove THEN {winningMove}
        ELSE IF blockingMove # NullMove THEN {blockingMove}
        ELSE {getStrategicMove(board)}
                 \cup {getRandomMove(board, draw) : draw \in {"first", "last"}}

storePlaceDiscAccepted(state, move) ==
    /\ ~(state.isGameOver \/ state.isProcessingMove)
    /\ placeDisc(state.board, move, state.currentPlayer) # state.board

storePlaced(state, move, player) ==
    [state EXCEPT
        !.isProcessingMove = TRUE,
        !.board = placeDisc(@, move, player),
        !.lastMove = [row |-> move.row, col |-> move.col, player |-> player]]

\* The callback scheduled by an accepted placement: rotate the placed cell's
\* block clockwise, count it, then decide the outcome and hand the turn over.
autoRotateTimeout(state, move) ==
    LET blockIndex == getBlockIndexFromPosition(move.row, move.col)
        rotated == [state EXCEPT
                      !.board = rotateBlock(@, blockIndex, "clockwise"),
                      !.blockRotations[blockIndex] = @ + 1,
                      !.lastRotation = [blockIndex |-> blockIndex, direction |-> "clockwise"]]
        winner == checkWinner(rotated.board)
    IN  IF winner # Null
        THEN [rotated EXCEPT !.winner = winner, !.isGameOver = TRUE, !.isProcessingMove = FALSE]
        ELSE [rotated EXCEPT !.currentPlayer = nextPlayer(@), !.isProcessingMove = FALSE]

\* 1 when the state just handed the turn to the AI, else 0.
aiScheduled(before, after) ==
    IF /\ before.currentPlayer # after.currentPlayer
       /\ after.gameMode = "pve"
       /\ after.currentPlayer = "white"
    THEN 1 ELSE 0

playAITurnAccepted(state) ==
    /\ ~(state.isGameOver \/ state.isProcessingMove)
    /\ ~(state.gameMode # "pve" \/ state.currentPlayer # "white")

storeResetGame(state) == [initialGameState EXCEPT !.gameMode = state.gameMode]

serverVars == <<connected, games, gameToSockets, socketToGame, nextGameId, emitted>>

StoreServed(op, result) ==
    /\ lastReq' = Req(op, "store", 0, result)
    /\ UNCHANGED serverVars

StorePlaceDisc(move) ==
    IF storePlaceDiscAccepted(store, move)
    THEN /\ store' = storePlaced(store, move, store.currentPlayer)
         /\ timers' = [timers EXCEPT !.rotation = Append(@, move)]
         /\ StoreServed("placeDisc", "accepted")
    ELSE /\ UNCHANGED <<store, timers>>
         /\ StoreServed("placeDisc", "rejected")

PlaceDiscTimeout ==
    /\ timers.rotation # << >>
    /\ store' = autoRotateTimeout(store, Head(timers.rotation))
    /\ timers' = [timers EXCEPT !.rotation = Tail(@), !.ai = @ + aiScheduled(store, store')]
    /\ StoreServed("placeDiscTimeout", "fired")

StoreSkipTurn ==
    IF store.isProcessingMove \/ store.isGameOver
    THEN /\ UNCHANGED <<store, timers>>
         /\ StoreServed("skipTurn", "rejected")
    ELSE /\ store' = [store EXCEPT !.currentPlayer = nextPlayer(@), !.isProcessingMove = FALSE]
         /\ timers' = [timers EXCEPT !.ai = @ + aiScheduled(store, store')]
         /\ StoreServed("skipTurn", "accepted")

StoreResetGame ==
    /\ store' = storeResetGame(store)
    /\ UNCHANGED timers
    /\ StoreServed("resetGame", "accepted")

ResetTimeout ==
    /\ timers.reset > 0
    /\ store' = storeResetGame(store)
    /\ timers' = [timers EXCEPT !.reset = @ - 1]
    /\ StoreServed("resetTimeout", "fired")

StoreUpdateSettings(gameMode) ==
    /\ store' = [store EXCEPT !.gameMode = gameMode]
    /\ timers' = [timers EXCEPT !.reset =
                      IF \/ store.gameMode = "pvp" /\ gameMode = "pve"
                         \/ store.gameMode = "pve" /\ gameMode = "pvp"
                      THEN @ + 1 ELSE @]
    /\ StoreServed("updateSettings", "accepted")

\* playAITurn, called by its timer or directly; aiMove is what getAIMove
\* returned, pendingAI the playAITurn callbacks still pending afterwards.
playAITurn(op, aiMove, pendingAI) ==
    IF ~playAITurnAccepted(store)
    THEN /\ UNCHANGED store
         /\ timers' = [timers EXCEPT !.ai = pendingAI]
         /\ StoreServed(op, "rejected")
    ELSE IF aiMove = NullMove
    THEN /\ UNCHANGED store
         /\ timers' = [timers EXCEPT !.ai = pendingAI]
         /\ StoreServed(op, "noMove")
    ELSE /\ store' = storePlaced(store, aiMove, "white")
         /\ timers' = [timers EXCEPT !.rotation = Append(@, aiMove), !.ai = pendingAI]
         /\ StoreServed(op, "accepted")

\* getAIMove is only called once playAITurn has passed its guards.
aiMoves(state) ==
    IF playAITurnAccepted(state) THEN getAIMove(state.board, "white") ELSE {NullMove}

StorePlayAITurn ==
    \E aiMove \in aiMoves(store) : playAITurn("playAITurn", aiMove, timers.ai)

PlayAITurnTimeout ==
    /\ timers.ai > 0
    /\ \E aiMove \in aiMoves(store) : playAITurn("playAITurnTimeout", aiMove, timers.ai - 1)

----------------------------------------------------------------------------
(* Socket handlers *)

\* The server is up and the clients have connected: io.on('connection') only
\* registers a socket's handlers. A socket that disconnects is gone for good,
\* its id is never handed out again.
Init ==
    /\ connected = Conns
    /\ games = EmptyMap
    /\ gameToSockets = EmptyMap
    /\ socketToGame = EmptyMap
    /\ nextGameId = 1
    /\ emitted = << >>
    /\ lastReq = Req("init", Null, 0, "none")
    /\ joinCount = 0
    /\ moveCount = 0
    /\ store = initialGameState
    /\ timers = NoTimers
    /\ call = NoCall
    /\ placements = EmptyMap
    /\ client = NoClient

OnCreateGame(socket) ==
    LET gameId == nextGameId
        playerId == socket
        state == initialState(gameId, playerId)
    IN  /\ socket \in connected
        /\ games' = Put(games, gameId, state)
        /\ gameToSockets' = Put(gameToSockets, gameId,
                                (IF gameId \in DOMAIN gameToSockets
                                 THEN gameToSockets[gameId] ELSE {}) \cup {socket})
        /\ socketToGame' = Put(socketToGame, socket, gameId)
        /\ nextGameId' = nextGameId + 1
        /\ emitted' = << Msg("joinGame", socket, gameId, "black"),
                         Msg("gameState", socket, gameId, state) >>
        /\ lastReq' = Req("createGame", socket, gameId, "accepted")
        /\ UNCHANGED connected

OnJoinGame(socket, gameId, asSpectator) ==
    LET playerId == socket
    IN  /\ socket \in connected
        /\ UNCHANGED <<connected, nextGameId>>
        /\ IF gameId \notin DOMAIN games
           THEN /\ emitted' = << Msg("gameNotFound", socket, gameId, NoPayload) >>
                /\ lastReq' = Req("joinGame", socket, gameId, "gameNotFound")
                /\ UNCHANGED <<games, gameToSockets, socketToGame>>
           ELSE IF joinGameFull(games[gameId], asSpectator)
           THEN /\ emitted' = << Msg("gameFull", socket, gameId, NoPayload) >>
                /\ lastReq' = Req("joinGame", socket, gameId, "gameFull")
                /\ UNCHANGED <<games, gameToSockets, socketToGame>>
           ELSE LET state == joinGameState(games[gameId], playerId, asSpectator)
                    playerType == joinGamePlayerType(games[gameId], asSpectator)
                IN  /\ games' = [games EXCEPT ![gameId] = state]
                    /\ gameToSockets' = Put(gameToSockets, gameId,
                                            (IF gameId \in DOMAIN gameToSockets
                                             THEN gameToSockets[gameId] ELSE {}) \cup {socket})
                    /\ socketToGame' = Put(socketToGame, socket, gameId)
                    /\ emitted' = << Msg("joinGame", socket, gameId, playerType),
                                     Msg("gameState", "room", gameId, state) >>
                    /\ lastReq' = Req("joinGame", socket, gameId, playerType)

Rejected(op, conn, gameId, result) ==
    /\ emitted' = << >>
    /\ lastReq' = Req(op, conn, gameId, result)
    /\ UNCHANGED games

\* The handler never reads socket.id: the requester is the payload's playerId.
OnPlaceDisc(gameId, playerId, move) ==
    /\ connected # {}
    /\ UNCHANGED <<connected, gameToSockets, socketToGame, nextGameId>>
    /\ IF gameId \notin DOMAIN games
       THEN Rejected("placeDisc", playerId, gameId, "rejected")
       ELSE IF ~placeDiscAccepted(games[gameId], playerId, move)
       THEN Rejected("placeDisc", playerId, gameId, "rejected")
       ELSE LET state == placeDiscState(games[gameId], playerId, move)
            IN  /\ games' = [games EXCEPT ![gameId] = state]
                /\ emitted' = << Msg("gameState", "room", gameId, state) >>
                /\ lastReq' = Req("placeDisc", playerId, gameId, "accepted")

OnRotateBlock(gameId, playerId, rotation) ==
    /\ connected # {}
    /\ UNCHANGED <<connected, gameToSockets, socketToGame, nextGameId>>
    /\ IF gameId \notin DOMAIN games
       THEN Rejected("rotateBlock", playerId, gameId, "rejected")
       ELSE IF rotateBlockResult(games[gameId], playerId, rotation) # "accepted"
       THEN Rejected("rotateBlock", playerId, gameId,
                     rotateBlockResult(games[gameId], playerId, rotation))
       ELSE LET state == rotateBlockState(games[gameId], rotation)
            IN  /\ games' = [games EXCEPT ![gameId] = state]
                /\ emitted' = << Msg("gameState", "room", gameId, state) >>
                /\ lastReq' = Req("rotateBlock", playerId, gameId, "accepted")

\* Faulty variant: the broadcast carries the state from before the reset.
OnResetGame_staleBroadcast(gameId, playerId) ==
    /\ connected # {}
    /\ UNCHANGED <<connected, gameToSockets, socketToGame, nextGameId>>
    /\ IF gameId \notin DOMAIN games
       THEN Rejected("resetGame", playerId, gameId, "rejected")
       ELSE IF ~resetGameAllowed(games[gameId], playerId)
       THEN Rejected("resetGame", playerId, gameId, "rejected")
       ELSE LET state == resetGameState(games[gameId])
            IN  /\ games' = [games EXCEPT ![gameId] = state]
                /\ emitted' = << Msg("gameState", "room", gameId, games[gameId]) >>
                /\ lastReq' = Req("resetGame", playerId, gameId, "accepted")

OnResetGame(gameId, playerId) ==
    /\ connected # {}
    /\ UNCHANGED <<connected, gameToSockets, socketToGame, nextGameId>>
    /\ IF gameId \notin DOMAIN games
       THEN Rejected("resetGame", playerId, gameId, "rejected")
       ELSE IF ~resetGameAllowed(games[gameId], playerId)
       THEN Rejected("resetGame", playerId, gameId, "rejected")
       ELSE LET state == resetGameState(games[gameId])
            IN  /\ games' = [games EXCEPT ![gameId] = state]
                /\ emitted' = << Msg("gameState", "room", gameId, state) >>
                /\ lastReq' = Req("resetGame", playerId, gameId, "accepted")

ApplyDisconnect(after) ==
    /\ games' = after.games
    /\ gameToSockets' = after.gameToSockets
    /\ socketToGame' = after.socketToGame
    /\ emitted' = after.emitted

OnLeaveGame(socket, gameId) ==
    /\ socket \in connected
    /\ UNCHANGED <<connected, nextGameId>>
    /\ IF gameId \notin DOMAIN games
       THEN /\ emitted' = << >>
            /\ lastReq' = Req("leaveGame", socket, gameId, "rejected")
            /\ UNCHANGED <<games, gameToSockets, socketToGame>>
       ELSE /\ ApplyDisconnect(handlePlayerDisconnect(socket, gameId))
            /\ lastReq' = Req("leaveGame", socket, gameId, "accepted")

OnDisconnect(socket) ==
    /\ socket \in connected
    /\ connected' = connected \ {socket}
    /\ UNCHANGED nextGameId
    /\ IF socket \in DOMAIN socketToGame
       THEN /\ ApplyDisconnect(handlePlayerDisconnect(socket, socketToGame[socket]))
            /\ lastReq' = Req("disconnect", socket, socketToGame[socket], "accepted")
       ELSE /\ emitted' = << >>
            /\ lastReq' = Req("disconnect", socket, 0, "none")
            /\ UNCHANGED <<games, gameToSockets, socketToGame>>

----------------------------------------------------------------------------
(* The server from start-up: every handler, inputs from small sets *)

\* The count of each registered game after the handler: one more for the game
\* of an accepted placeDisc, zero for a game just created or reset.
placementsAfter ==
    [gameId \in DOMAIN games' |->
        IF lastReq'.gameId = gameId /\ lastReq'.result = "accepted"
                                   /\ lastReq'.op = "placeDisc"
        THEN placements[gameId] + 1
        ELSE IF lastReq'.gameId = gameId /\ lastReq'.result = "accepted"
                                        /\ lastReq'.op \in {"resetGame", "createGame"}
        THEN 0
        ELSE IF gameId \in DOMAIN placements THEN placements[gameId]
        ELSE 0]

PlaceMoves == {Move(0, 0), Move(4, 0)}

Rotations == {Rotation(0, "clockwise")}

SpectatorRoom(gameId) ==
    gameId \in DOMAIN games => Len(games[gameId].spectators) < MaxSpectators

\* The budgets: joins that added a member, moves that were accepted.
Moving(max) ==
    /\ moveCount < max
    /\ moveCount' = IF lastReq'.result = "accepted" THEN moveCount + 1 ELSE moveCount
    /\ UNCHANGED <<joinCount, store, timers, call>>
    /\ placements' = placementsAfter
    /\ UNCHANGED client

Other ==
    /\ UNCHANGED <<joinCount, moveCount, store, timers, call>>
    /\ placements' = placementsAfter
    /\ UNCHANGED client

Joining ==
    /\ UNCHANGED <<moveCount, store, timers, call>>
    /\ placements' = placementsAfter
    /\ UNCHANGED client
    /\ joinCount < MaxJoins
    /\ joinCount' = IF lastReq'.result \in {"gameNotFound", "gameFull"}
                    THEN joinCount ELSE joinCount + 1

Next ==
    \/ \E socket \in Conns : nextGameId <= MaxGames /\ OnCreateGame(socket) /\ Joining
    \/ \E socket \in Conns, gameId \in GameIds, asSpectator \in BOOLEAN :
          /\ asSpectator => SpectatorRoom(gameId)
          /\ OnJoinGame(socket, gameId, asSpectator)
          /\ Joining
    \/ \E gameId \in GameIds, playerId \in Conns, move \in PlaceMoves :
          OnPlaceDisc(gameId, playerId, move) /\ Moving(MaxMoves)
    \/ \E gameId \in GameIds, playerId \in Conns, rotation \in Rotations :
          OnRotateBlock(gameId, playerId, rotation) /\ Moving(MaxMoves)
    \/ \E gameId \in GameIds, playerId \in Conns :
          OnResetGame(gameId, playerId) /\ Other
    \/ \E socket \in Conns, gameId \in GameIds : OnLeaveGame(socket, gameId) /\ Other
    \/ \E socket \in Conns : OnDisconnect(socket) /\ Other

Spec == Init /\ [][Next]_vars

----------------------------------------------------------------------------
(* One game in play: s1 created it, s2 joined as white, s3 watches, and    *)
(* twelve placements were accepted. Every handler but createGame.          *)

Opening ==
    << Move(0, 0), Move(0, 3), Move(0, 1), Move(1, 0), Move(0, 2), Move(1, 1),
       Move(1, 2), Move(3, 0), Move(2, 0), Move(3, 1), Move(2, 2), Move(3, 2) >>

RECURSIVE playOpening(_, _)
playOpening(gameState, moves) ==
    IF moves = << >> THEN gameState
    ELSE LET playerId == gameState.players[gameState.currentPlayer]
         IN  IF placeDiscAccepted(gameState, playerId, Head(moves))
             THEN playOpening(placeDiscState(gameState, playerId, Head(moves)), Tail(moves))
             ELSE gameState

OpeningState ==
    playOpening(
        joinGameState(joinGameState(initialState(1, "s1"), "s2", FALSE), "s3", TRUE),
        Opening)

InitPlay ==
    /\ connected = Conns
    /\ games = Put(EmptyMap, 1, OpeningState)
    /\ gameToSockets = Put(EmptyMap, 1, {"s1", "s2", "s3"})
    /\ socketToGame = [socket \in {"s1", "s2", "s3"} |-> 1]
    /\ nextGameId = 2
    /\ emitted = << Msg("gameState", "room", 1, OpeningState) >>
    /\ lastReq = Req("placeDisc", "s2", 1, "accepted")
    /\ joinCount = 0
    /\ moveCount = 0
    /\ store = initialGameState
    /\ timers = NoTimers
    /\ call = NoCall
    /\ placements = Put(EmptyMap, 1, Len(Opening))
    /\ client = NoClient

PlayMoves == {Move(1, 3), Move(2, 1), Move(2, 3), Move(3, 3), Move(0, 0), Move(4, 0)}

PlayGameIds == {1}

PlayLeavers == {"s2", "s3"}

PlayRotations ==
    {Rotation(1, "clockwise"), Rotation(3, "counter-clockwise"), Rotation(4, "clockwise")}

\* In play, joins, leaves and disconnects share one budget.
MemberOp ==
    /\ UNCHANGED <<moveCount, store, timers, call>>
    /\ placements' = placementsAfter
    /\ UNCHANGED client
    /\ joinCount < MaxMemberOps
    /\ joinCount' = IF lastReq'.result \in {"gameNotFound", "gameFull", "rejected", "none"}
                    THEN joinCount ELSE joinCount + 1

NextPlay ==
    \/ \E socket \in PlayLeavers, gameId \in PlayGameIds, asSpectator \in BOOLEAN :
          /\ asSpectator => SpectatorRoom(gameId)
          /\ OnJoinGame(socket, gameId, asSpectator)
          /\ MemberOp
    \/ \E gameId \in PlayGameIds, playerId \in Conns, move \in PlayMoves :
          OnPlaceDisc(gameId, playerId, move) /\ Moving(MaxPlayMoves)
    \/ \E gameId \in PlayGameIds, playerId \in Conns, rotation \in PlayRotations :
          OnRotateBlock(gameId, playerId, rotation) /\ Moving(MaxPlayMoves)
    \/ \E gameId \in PlayGameIds, playerId \in Conns :
          OnResetGame(gameId, playerId) /\ Other
    \/ \E socket \in PlayLeavers, gameId \in PlayGameIds : OnLeaveGame(socket, gameId) /\ MemberOp
    \/ \E socket \in PlayLeavers : OnDisconnect(socket) /\ MemberOp

SpecPlay == InitPlay /\ [][NextPlay]_vars

----------------------------------------------------------------------------
(* The local session from a fresh store: every operation of the store and  *)
(* every timer callback.                                                   *)

InitLocal ==
    /\ connected = {}
    /\ games = EmptyMap
    /\ gameToSockets = EmptyMap
    /\ socketToGame = EmptyMap
    /\ nextGameId = 1
    /\ emitted = << >>
    /\ lastReq = Req("init", Null, 0, "none")
    /\ joinCount = 0
    /\ moveCount = 0
    /\ store = initialGameState
    /\ timers = NoTimers
    /\ call = NoCall
    /\ placements = EmptyMap
    /\ client = NoClient

LocalMoves == {Move(1, 1), Move(0, 0), Move(2, 3), Move(4, 0)}

\* The three mode buttons of the settings panel.
GameModes == {"pvp", "pve", "online"}

\* The budgets: placements accepted, and resets, skips and settings changes.
LocalPlacing ==
    /\ moveCount < MaxLocalMoves
    /\ moveCount' = IF lastReq'.result = "accepted" THEN moveCount + 1 ELSE moveCount
    /\ UNCHANGED <<joinCount, call, placements, client>>

LocalOp ==
    /\ joinCount < MaxLocalOps
    /\ timers.ai < MaxAITimers
    /\ joinCount' = IF lastReq'.result = "accepted" THEN joinCount + 1 ELSE joinCount
    /\ UNCHANGED <<moveCount, call, placements, client>>

NextLocal ==
    \/ \E move \in LocalMoves : StorePlaceDisc(move) /\ LocalPlacing
    \/ PlaceDiscTimeout /\ timers.ai < MaxAITimers /\ UNCHANGED <<joinCount, moveCount, call, placements, client>>
    \/ StoreSkipTurn /\ LocalOp
    \/ StoreResetGame /\ LocalOp
    \/ ResetTimeout /\ UNCHANGED <<joinCount, moveCount, call, placements, client>>
    \/ \E gameMode \in GameModes : StoreUpdateSettings(gameMode) /\ LocalOp
    \/ StorePlayAITurn /\ LocalPlacing
    \/ PlayAITurnTimeout /\ LocalPlacing

SpecLocal == InitLocal /\ [][NextLocal]_vars

----------------------------------------------------------------------------
(* The local session with its timers: the user's requests are budgeted, a  *)
(* scheduled callback is never held back and eventually runs.              *)

MaxFairMoves == 2
MaxFairOps == 3

FairMoves == {Move(1, 1), Move(0, 0), Move(4, 0)}

FairPlacing ==
    /\ moveCount < MaxFairMoves
    /\ moveCount' = IF lastReq'.result = "accepted" THEN moveCount + 1 ELSE moveCount
    /\ UNCHANGED <<joinCount, call, placements, client>>

FairOp ==
    /\ joinCount < MaxFairOps
    /\ joinCount' = IF lastReq'.result = "accepted" THEN joinCount + 1 ELSE joinCount
    /\ UNCHANGED <<moveCount, call, placements, client>>

timerFrame == UNCHANGED <<joinCount, moveCount, call, placements, client>>

RotationTimerFires == PlaceDiscTimeout /\ timerFrame

ResetTimerFires == ResetTimeout /\ timerFrame

AITimerFires == PlayAITurnTimeout /\ timerFrame

NextLocalFair ==
    \/ \E move \in FairMoves : StorePlaceDisc(move) /\ FairPlacing
    \/ StoreSkipTurn /\ FairOp
    \/ StoreResetGame /\ FairOp
    \/ \E gameMode \in GameModes : StoreUpdateSettings(gameMode) /\ FairOp
    \/ RotationTimerFires
    \/ ResetTimerFires
    \/ AITimerFires

\* setTimeout callbacks run once their delay has passed.
TimersFire ==
    /\ WF_vars(RotationTimerFires)
    /\ WF_vars(ResetTimerFires)
    /\ WF_vars(AITimerFires)

SpecLocalFair == InitLocal /\ [][NextLocalFair]_vars /\ TimersFire

----------------------------------------------------------------------------
(* The board engine applied to given boards: every function is applied to  *)
(* the board the state starts with, and call records arguments and result. *)

\* The rows the boards are assembled from.
RowPatterns ==
    {<<Null, Null, Null, Null>>,
     <<"black", "black", "black", "black">>,
     <<"white", "white", "white", "white">>,
     <<"black", "white", "black", "white">>,
     <<"white", "black", "white", "black">>,
     <<"black", Null, Null, Null>>,
     <<Null, "black", Null, Null>>,
     <<Null, Null, "black", Null>>,
     <<Null, Null, Null, "black">>}

boardOfRows(rows) == [p \in Pos |-> rows[p[1] + 1][p[2] + 1]]

Boards == {boardOfRows(<<r0, r1, r2, r3>>) : r0 \in RowPatterns, r1 \in RowPatterns,
                                             r2 \in RowPatterns, r3 \in RowPatterns}

EngineMoves == {Move(0, 0), Move(1, 2), Move(3, 3), Move(4, 0), Move(0, -1)}

Players == {"black", "white"}

Directions == {"clockwise", "counter-clockwise"}

\* The board component keeps its own mapping from a cell to its block.
BoardGetBlockIndexFromPosition(row, col) ==
    IF row < 2
    THEN (IF col < 2 THEN 0 ELSE 1)
    ELSE (IF col < 2 THEN 2 ELSE 3)

engineFrame ==
    UNCHANGED <<serverVars, lastReq, joinCount, moveCount, store, timers, placements, client>>

InitBoard ==
    /\ connected = {}
    /\ games = EmptyMap
    /\ gameToSockets = EmptyMap
    /\ socketToGame = EmptyMap
    /\ nextGameId = 1
    /\ emitted = << >>
    /\ lastReq = Req("init", Null, 0, "none")
    /\ joinCount = 0
    /\ moveCount = 0
    /\ store = initialGameState
    /\ timers = NoTimers
    /\ call \in {[fn |-> "none", board |-> board] : board \in Boards}
    /\ placements = EmptyMap
    /\ client = NoClient

ApplyCheckWinner ==
    /\ call' = [fn |-> "checkWinner", board |-> call.board,
                result |-> checkWinner(call.board)]
    /\ engineFrame

ApplyRotateBlock(blockIndex, direction) ==
    /\ call' = [fn |-> "rotateBlock", board |-> call.board,
                blockIndex |-> blockIndex, direction |-> direction,
                result |-> rotateBlock(call.board, blockIndex, direction)]
    /\ engineFrame

ApplyPlaceDisc(move, player) ==
    /\ call' = [fn |-> "placeDisc", board |-> call.board,
                move |-> move, player |-> player,
                result |-> placeDisc(call.board, move, player)]
    /\ engineFrame

ApplyGetBlockIndexFromPosition(row, col) ==
    /\ call' = [fn |-> "getBlockIndexFromPosition", board |-> call.board,
                row |-> row, col |-> col,
                result |-> getBlockIndexFromPosition(row, col)]
    /\ engineFrame

ApplyBoardGetBlockIndexFromPosition(row, col) ==
    /\ call' = [fn |-> "Board.getBlockIndexFromPosition", board |-> call.board,
                row |-> row, col |-> col,
                result |-> BoardGetBlockIndexFromPosition(row, col)]
    /\ engineFrame

NextBoard ==
    \/ ApplyCheckWinner
    \/ \E blockIndex \in Blocks, direction \in Directions :
          ApplyRotateBlock(blockIndex, direction)
    \/ \E move \in EngineMoves, player \in Players : ApplyPlaceDisc(move, player)
    \/ \E p \in Pos : ApplyGetBlockIndexFromPosition(p[1], p[2])
    \/ \E p \in Pos : ApplyBoardGetBlockIndexFromPosition(p[1], p[2])

SpecBoard == InitBoard /\ [][NextBoard]_vars

----------------------------------------------------------------------------
(* The AI: minimax, findBestMove, findTacticalMove and the tiers of         *)
(* getAIMove. A cell is a pair <<row, col>>; a returned move is a record.   *)

\* -Infinity and Infinity of the searches: below and above every score.
NegativeInfinity == -1000

PositiveInfinity == 1000

Max(a, b) == IF a >= b THEN a ELSE b

Min(a, b) == IF a <= b THEN a ELSE b

opponentOf(player) == IF player = "black" THEN "white" ELSE "black"

moveAt(p) == Move(p[1], p[2])

RECURSIVE minimax(_, _, _, _, _, _)
RECURSIVE maximizing(_, _, _, _, _, _, _)
RECURSIVE minimizing(_, _, _, _, _, _, _)

\* depth is the depth that remains: findBestMove passes maxDepth and every
\* level passes depth - 1.
minimax(board, depth, isMaximizing, player, alpha, beta) ==
    LET opponent == opponentOf(player)
        winner == checkWinner(board)
        possibleMoves == getAllPossibleMoves(board)
    IN  IF winner = player THEN 100 - depth
        ELSE IF winner = opponent THEN depth - 100
        ELSE IF winner = "draw" \/ depth = 0 THEN 0
        ELSE IF possibleMoves = {} THEN 0
        ELSE IF isMaximizing
             THEN maximizing(board, possibleMoves, depth, player, alpha, beta, NegativeInfinity)
             ELSE minimizing(board, possibleMoves, depth, player, alpha, beta, PositiveInfinity)

\* The loop of the maximizing branch over the moves that remain, in row-major
\* order, with the alpha-beta cut.
maximizing(board, moves, depth, player, alpha, beta, maxEval) ==
    IF moves = {} THEN maxEval
    ELSE LET move == firstIn(moves)
             evalScore == minimax([board EXCEPT ![move] = player],
                                  depth - 1, FALSE, player, alpha, beta)
             newMaxEval == Max(maxEval, evalScore)
             newAlpha == Max(alpha, evalScore)
         IN  IF beta <= newAlpha THEN newMaxEval
             ELSE maximizing(board, moves \ {move}, depth, player, newAlpha, beta, newMaxEval)

minimizing(board, moves, depth, player, alpha, beta, minEval) ==
    IF moves = {} THEN minEval
    ELSE LET move == firstIn(moves)
             evalScore == minimax([board EXCEPT ![move] = opponentOf(player)],
                                  depth - 1, TRUE, player, alpha, beta)
             newMinEval == Min(minEval, evalScore)
             newBeta == Min(beta, evalScore)
         IN  IF newBeta <= alpha THEN newMinEval
             ELSE minimizing(board, moves \ {move}, depth, player, alpha, newBeta, newMinEval)

\* findBestMove's moveValue of each possible move.
moveValues(board, player, maxDepth) ==
    [move \in getAllPossibleMoves(board) |->
        minimax([board EXCEPT ![move] = player], maxDepth, FALSE, player,
                NegativeInfinity, PositiveInfinity)]

\* The first move, in row-major order, of the greatest moveValue; null when
\* there is no possible move.
bestMove(moveValue) ==
    LET possibleMoves == DOMAIN moveValue
        best == {move \in possibleMoves :
                    \A other \in possibleMoves : moveValue[other] <= moveValue[move]}
    IN  IF possibleMoves = {} THEN NullMove ELSE moveAt(firstIn(best))

findBestMove(board, player, maxDepth) == bestMove(moveValues(board, player, maxDepth))

\* The row, the column and the diagonals through a cell.
linesThrough(move) ==
    {{<<move[1], c>> : c \in 0..3}, {<<r, move[2]>> : r \in 0..3}}
        \cup (IF move[1] = move[2] THEN {{<<i, i>> : i \in 0..3}} ELSE {})
        \cup (IF move[1] + move[2] = 3 THEN {{<<i, 3 - i>> : i \in 0..3}} ELSE {})

countOf(board, line, value) == Cardinality({p \in line : board[p] = value})

evaluateForkPotential(board, move, player) ==
    LET potentialWinLines ==
            Cardinality({line \in linesThrough(move) :
                            /\ countOf(board, line, player) >= 2
                            /\ countOf(board, line, Null) >= 1})
    IN  IF potentialWinLines > 1 THEN potentialWinLines ELSE 0

preventOpponentFork(board, move, player) ==
    LET opponent == opponentOf(player)
        newBoard == [board EXCEPT ![move] = player]
        forks == {opMove \in getAllPossibleMoves(newBoard) :
                     evaluateForkPotential([newBoard EXCEPT ![opMove] = opponent],
                                           opMove, opponent) # 0}
    IN  IF forks = {} THEN 1 ELSE 0

\* The target of a possible move holds null, which is not undefined: the
\* function returns at its first test.
evaluateSharedLines(board, move, player) == 0

evaluateDefensiveValue(board, move, player) ==
    LET opponent == opponentOf(player)
        newBoard == [board EXCEPT ![move] = opponent]
    IN  5 * Cardinality({line \in linesThrough(move) : countOf(newBoard, line, opponent) >= 3})

tacticalScore(board, move, player) ==
    evaluateForkPotential([board EXCEPT ![move] = player], move, player) * 50
        + preventOpponentFork(board, move, player) * 40
        + (IF move[1] \in {1, 2} /\ move[2] \in {1, 2} THEN 30 ELSE 0)
        + (IF move[1] = move[2] \/ move[1] + move[2] = 3 THEN 15 ELSE 0)
        + evaluateSharedLines(board, move, player) * 20
        + evaluateDefensiveValue(board, move, player) * 30

findTacticalMove(board, player) ==
    LET possibleMoves == getAllPossibleMoves(board)
        score == [move \in possibleMoves |-> tacticalScore(board, move, player)]
        best == {move \in possibleMoves :
                    \A other \in possibleMoves : score[other] <= score[move]}
    IN  IF possibleMoves = {} THEN NullMove
        ELSE IF score[firstIn(best)] > 0 THEN moveAt(firstIn(best))
        ELSE NullMove

\* Math.random() picks the index: every possible move can be returned.
getRandomMoves(board) ==
    IF getAllPossibleMoves(board) = {} THEN {NullMove}
    ELSE {moveAt(p) : p \in getAllPossibleMoves(board)}

\* a || b over the values a can take: a's moves, and b's where a is null.
orElse(moves, others) ==
    (moves \ {NullMove}) \cup (IF NullMove \in moves THEN others ELSE {})

fallbackMoves(board, player) ==
    orElse({findTacticalMove(board, player)},
           orElse({getStrategicMove(board)}, getRandomMoves(board)))

\* The scores of evaluateTacticalValue, evaluateBoardAdvanced and of the
\* rotations only order the possible moves: any of them can rank first, and
\* when every evaluation fails the fallback chain answers.
findAdvancedMove(board, player) ==
    LET winningMove == findWinningMove(board, player)
        blockingMove == findBlockingMove(board, player)
    IN  IF winningMove # NullMove THEN {winningMove}
        ELSE IF blockingMove # NullMove THEN {blockingMove}
        ELSE IF getAllPossibleMoves(board) = {} THEN {NullMove}
        ELSE getRandomMoves(board) \cup fallbackMoves(board, player)

\* As findAdvancedMove; one draw in ten returns one of the three best moves.
findUltimateBestMove(board, player) ==
    LET winningMove == findWinningMove(board, player)
        blockingMove == findBlockingMove(board, player)
    IN  IF winningMove # NullMove THEN {winningMove}
        ELSE IF blockingMove # NullMove THEN {blockingMove}
        ELSE IF getAllPossibleMoves(board) = {} THEN {NullMove}
        ELSE getRandomMoves(board) \cup fallbackMoves(board, player)

Difficulties == {"easy", "medium", "hard", "expert", "master", "other"}

\* getAIMove(board, difficulty, player): the moves it can return over the
\* outcomes of Math.random(); hasGameState tells whether window.__GAME_STATE__
\* holds a state with blockRotations.
getAIMoveTier(board, difficulty, player, hasGameState) ==
    LET winningMove == findWinningMove(board, player)
        blockingMove == findBlockingMove(board, player)
        tacticalMove == findTacticalMove(board, player)
        strategicOrRandom == orElse({getStrategicMove(board)}, getRandomMoves(board))
    IN  CASE difficulty = "easy" ->
                (IF winningMove # NullMove THEN {winningMove} ELSE getRandomMoves(board))
                    \cup getRandomMoves(board)
          [] difficulty = "medium" ->
                IF winningMove # NullMove THEN {winningMove}
                ELSE IF blockingMove # NullMove THEN {blockingMove}
                ELSE strategicOrRandom \cup getRandomMoves(board)
          [] difficulty = "hard" ->
                IF winningMove # NullMove THEN {winningMove}
                ELSE IF blockingMove # NullMove THEN {blockingMove}
                ELSE IF tacticalMove # NullMove THEN {tacticalMove}
                ELSE strategicOrRandom
                        \cup orElse({findBestMove(board, player, 3)}, getRandomMoves(board))
                        \cup getRandomMoves(board)
          [] difficulty = "expert" ->
                IF winningMove # NullMove THEN {winningMove}
                ELSE IF blockingMove # NullMove THEN {blockingMove}
                ELSE orElse(IF hasGameState THEN findAdvancedMove(board, player)
                                            ELSE {NullMove},
                            orElse({findBestMove(board, player, 6)},
                                   fallbackMoves(board, player)))
                        \cup fallbackMoves(board, player)
          [] difficulty = "master" ->
                orElse(IF hasGameState THEN findUltimateBestMove(board, player)
                                       ELSE {NullMove},
                       {findBestMove(board, player, 8)})
          [] OTHER -> getRandomMoves(board)

----------------------------------------------------------------------------
(* The AI applied to given boards: positions of a game that is not won, at *)
(* most MaxEmptyCells cells from full.                                      *)

MaxEmptyCells == 3

FullBoards ==
    {boardOfRows(<< <<"white", "white", "white", "black">>,
                    <<"white", "black", "black", "white">>,
                    <<"white", "black", "black", "black">>,
                    <<"black", "black", "black", "white">> >>),
     boardOfRows(<< <<"black", "white", "white", "white">>,
                    <<"white", "white", "black", "black">>,
                    <<"white", "black", "white", "black">>,
                    <<"white", "black", "black", "black">> >>),
     boardOfRows(<< <<"black", "white", "black", "white">>,
                    <<"black", "white", "black", "white">>,
                    <<"white", "black", "white", "black">>,
                    <<"white", "black", "white", "black">> >>)}

\* Black moves first: it has as many discs as white, or one more.
inPlay(board) ==
    /\ checkWinner(board) \in {Null, "draw"}
    /\ Cardinality({p \in Pos : board[p] = "black"})
         - Cardinality({p \in Pos : board[p] = "white"}) \in {0, 1}

AIBoards ==
    {board \in {[p \in Pos |-> IF p \in empty THEN Null ELSE full[p]] :
                    full \in FullBoards,
                    empty \in {cells \in SUBSET Pos : Cardinality(cells) <= MaxEmptyCells}} :
        inPlay(board)}

SearchDepths == {3, 8}

InitAI ==
    /\ connected = {}
    /\ games = EmptyMap
    /\ gameToSockets = EmptyMap
    /\ socketToGame = EmptyMap
    /\ nextGameId = 1
    /\ emitted = << >>
    /\ lastReq = Req("init", Null, 0, "none")
    /\ joinCount = 0
    /\ moveCount = 0
    /\ store = initialGameState
    /\ timers = NoTimers
    /\ call \in {[fn |-> "none", board |-> board] : board \in AIBoards}
    /\ placements = EmptyMap
    /\ client = NoClient

ApplyGetAIMove(difficulty, player, hasGameState) ==
    /\ call.fn = "none"
    /\ \E result \in getAIMoveTier(call.board, difficulty, player, hasGameState) :
          call' = [fn |-> "getAIMove", board |-> call.board,
                   difficulty |-> difficulty, player |-> player,
                   hasGameState |-> hasGameState, result |-> result]
    /\ engineFrame

ApplyFindBestMove(player, maxDepth) ==
    /\ call.fn = "none"
    /\ LET moveValue == moveValues(call.board, player, maxDepth)
       IN  call' = [fn |-> "findBestMove", board |-> call.board,
                    player |-> player, maxDepth |-> maxDepth,
                    moveValue |-> moveValue,
                    result |-> bestMove(moveValue)]
    /\ engineFrame

NextAI ==
    \/ \E difficulty \in Difficulties, player \in Players, hasGameState \in BOOLEAN :
          ApplyGetAIMove(difficulty, player, hasGameState)
    \/ \E player \in Players, maxDepth \in SearchDepths : ApplyFindBestMove(player, maxDepth)

SpecAI == InitAI /\ [][NextAI]_vars

----------------------------------------------------------------------------
(* Vocabulary of the properties *)

Range(seq) == {seq[i] : i \in 1..Len(seq)}

holdsSeat(gameState, conn) ==
    gameState.players.black = conn \/ gameState.players.white = conn

spectates(gameState, conn) ==
    ~holdsSeat(gameState, conn) /\ conn \in Range(gameState.spectators)

offTurnHolder(gameState, conn) ==
    holdsSeat(gameState, conn) /\ gameState.players[gameState.currentPlayer] # conn

seatVacant(gameState) ==
    Falsy(gameState.players.black) \/ Falsy(gameState.players.white)

notJoined(conn, gameId) ==
    /\ conn \in DOMAIN socketToGame => socketToGame[conn] # gameId
    /\ gameId \in DOMAIN gameToSockets => conn \notin gameToSockets[gameId]

\* Board, turn, rotation counts, last move, last rotation and outcome.
GameView(gameState) ==
    << gameState.board, gameState.currentPlayer, gameState.blockRotations,
       gameState.lastMove, gameState.lastRotation, gameState.winner,
       gameState.isGameOver >>

broadcasts(msgs, gameId) ==
    {i \in 1..Len(msgs) :
        msgs[i].type = "gameState" /\ msgs[i].to = "room" /\ msgs[i].gameId = gameId}

\* The step served one of `ops`, requested by `conn` for game `gameId`.
Served(ops, conn, gameId) ==
    /\ lastReq'.op \in ops
    /\ lastReq'.conn = conn
    /\ lastReq'.gameId = gameId

MoveOps == {"placeDisc", "rotateBlock"}

----------------------------------------------------------------------------
(* C1: a place, rotate or reset requested by a spectator of a game leaves  *)
(* board, turn, rotation counts, last move, last rotation and outcome      *)
(* unchanged and broadcasts no gameState.                                  *)
C1_SpectatorNeverChangesGame ==
    [][\A gameId \in DOMAIN games, conn \in Conns :
        (/\ spectates(games[gameId], conn)
         /\ Served(MoveOps \cup {"resetGame"}, conn, gameId))
        => /\ gameId \in DOMAIN games'
           /\ GameView(games'[gameId]) = GameView(games[gameId])
           /\ broadcasts(emitted', gameId) = {}]_vars

(* C2: a place or rotate requested by a seat holder who does not hold the  *)
(* seat of the colour to move is rejected: games, membership maps          *)
(* unchanged, nothing emitted.                                             *)
C2_OffTurnSeatHolderRejected ==
    [][\A gameId \in DOMAIN games, conn \in Conns :
        (/\ offTurnHolder(games[gameId], conn)
         /\ Served(MoveOps, conn, gameId))
        => /\ lastReq'.result = "rejected"
           /\ games' = games
           /\ gameToSockets' = gameToSockets
           /\ socketToGame' = socketToGame
           /\ emitted' = << >>]_vars

C2_Witness ==
    \E gameId \in DOMAIN games :
        /\ lastReq = Req("placeDisc", games[gameId].players.black, gameId, "rejected")
        /\ offTurnHolder(games[gameId], lastReq.conn)
        /\ ~games[gameId].isGameOver
        /\ ~games[gameId].isWaiting
        /\ games[gameId].currentPlayer = "white"
        /\ emitted = << >>

(* C3: a place, rotate, reset or leave naming game G from a connection     *)
(* that is not joined to G changes neither the games nor the two           *)
(* membership maps.                                                        *)
C3_IntentOfNonMemberDropped ==
    [][\A gameId \in DOMAIN games, conn \in Conns :
        (/\ notJoined(conn, gameId)
         /\ Served(MoveOps \cup {"resetGame", "leaveGame"}, conn, gameId))
        => /\ games' = games
           /\ gameToSockets' = gameToSockets
           /\ socketToGame' = socketToGame]_vars

(* C4: a join without spectator request takes the black seat if vacant,    *)
(* else the white seat if vacant, else is refused with gameFull; a join    *)
(* with spectator request always succeeds as spectator and takes no seat.  *)
C4_JoinSeating ==
    [][\A gameId \in DOMAIN games, conn \in Conns, asSpectator \in BOOLEAN :
        (Served({"joinGame"}, conn, gameId) /\ OnJoinGame(conn, gameId, asSpectator))
        => LET before == games[gameId]
               after == games'[gameId]
               told(role) == emitted'[1] = Msg("joinGame", conn, gameId, role)
           IN  IF asSpectator
               THEN /\ told("spectator")
                    /\ after.players = before.players
                    /\ conn \in Range(after.spectators)
               ELSE IF Falsy(before.players.black)
               THEN /\ told("black")
                    /\ after.players = [before.players EXCEPT !.black = conn]
               ELSE IF Falsy(before.players.white)
               THEN /\ told("white")
                    /\ after.players = [before.players EXCEPT !.white = conn]
               ELSE /\ emitted' = << Msg("gameFull", conn, gameId, NoPayload) >>
                    /\ games' = games]_vars

C4_Witness ==
    \E gameId \in DOMAIN games :
        /\ lastReq = Req("joinGame", "s3", gameId, "spectator")
        /\ ~seatVacant(games[gameId])
        /\ games[gameId].players.black # games[gameId].players.white
        /\ "s3" \in Range(games[gameId].spectators)

(* C5: in a game that is not over, isWaiting holds exactly when a seat is  *)
(* vacant.                                                                 *)
C5_WaitingIffSeatVacant ==
    \A gameId \in DOMAIN games :
        ~games[gameId].isGameOver
        => (games[gameId].isWaiting <=> seatVacant(games[gameId]))

C7_TurnKeptWhenGameEnds ==
    [][\A gameId \in (DOMAIN games) \cap (DOMAIN games') :
        (/\ Served(MoveOps, lastReq'.conn, gameId)
         /\ lastReq'.result = "accepted"
         /\ games'[gameId].isGameOver)
        => games'[gameId].currentPlayer = games[gameId].currentPlayer]_vars

(* C8: an accepted place or rotate is made by the colour to move and hands *)
(* the turn to the other colour; a new game and an accepted reset leave    *)
(* black to move; no other step changes whose turn it is. Hence accepted   *)
(* moves alternate in colour, from black.                                  *)
C8_TurnsAlternate ==
    [][/\ \A gameId \in (DOMAIN games') \ (DOMAIN games) :
            games'[gameId].currentPlayer = "black"
       /\ \A gameId \in (DOMAIN games) \cap (DOMAIN games') :
            LET before == games[gameId]
                after == games'[gameId]
                mover == IF before.players.black = lastReq'.conn THEN "black" ELSE "white"
                served(ops) == Served(ops, lastReq'.conn, gameId) /\ lastReq'.result = "accepted"
            IN  IF served(MoveOps)
                THEN /\ mover = before.currentPlayer
                     /\ after.currentPlayer # before.currentPlayer
                     /\ after.currentPlayer \in {"black", "white"}
                     /\ lastReq'.op = "placeDisc" => after.lastMove.player = mover
                ELSE IF served({"resetGame"})
                THEN after.currentPlayer = "black"
                ELSE after.currentPlayer = before.currentPlayer]_vars

C8_Witness ==
    \E gameId \in DOMAIN games :
        /\ moveCount = 3
        /\ lastReq.op \in MoveOps
        /\ lastReq.result = "accepted"
        /\ lastReq.gameId = gameId
        /\ games[gameId].currentPlayer = "white"
        /\ ~games[gameId].isGameOver

(* C9: a registered game has a member that is still connected: once every  *)
(* connection that created or joined it has left it or disconnected, the   *)
(* game is no longer registered.                                           *)
C9_EmptyRoomDestroyed ==
    \A gameId \in DOMAIN games :
        /\ gameId \in DOMAIN gameToSockets
        /\ gameToSockets[gameId] \cap connected # {}

C11_RotationCountsWithinCap ==
    \A gameId \in DOMAIN games :
        /\ games[gameId].maxRotations = MaxRotations
        /\ DOMAIN games[gameId].blockRotations = Blocks
        /\ \A blockIndex \in Blocks :
              games[gameId].blockRotations[blockIndex] \in 0..games[gameId].maxRotations

C11_Witness ==
    \E gameId \in DOMAIN games :
        /\ lastReq.op = "rotateBlock"
        /\ lastReq.result = "accepted"
        /\ lastReq.gameId = gameId
        /\ games[gameId].lastRotation.blockIndex = 3
        /\ games[gameId].blockRotations[3] = MaxRotations

\* The game as the placeDisc handler would see it had it been created with
\* rotationMode 'auto'; the server itself only creates 'manual' games.
inAutoMode(gameState) == [gameState EXCEPT !.rotationMode = "auto"]

atCap(gameState, blockIndex) ==
    /\ blockIndex \in Blocks
    /\ gameState.blockRotations[blockIndex] = gameState.maxRotations

(* C12: a rotate by the player to move on a block whose count equals the    *)
(* cap is rejected: game state unchanged, nothing emitted. In auto mode an  *)
(* accepted placement into a block at its cap places the disc, rotates      *)
(* nothing, changes no count and hands the turn over.                       *)
C12_RotationCapHandling ==
    [][/\ \A gameId \in DOMAIN games, rotation \in PlayRotations :
            LET gameState == games[gameId]
                conn == gameState.players[gameState.currentPlayer]
            IN  (/\ atCap(gameState, rotation.blockIndex)
                 /\ Served({"rotateBlock"}, conn, gameId)
                 /\ OnRotateBlock(gameId, conn, rotation))
                => /\ lastReq'.result = "rejected"
                   /\ games' = games
                   /\ emitted' = << >>
       /\ \A gameId \in DOMAIN games, move \in PlayMoves :
            LET gameState == inAutoMode(games[gameId])
                conn == gameState.players[gameState.currentPlayer]
                after == placeDiscState(gameState, conn, move)
            IN  (/\ placeDiscAccepted(gameState, conn, move)
                 /\ atCap(gameState, getBlockIndexFromPosition(move.row, move.col)))
                => /\ after.board = placeDisc(gameState.board, move, gameState.currentPlayer)
                   /\ after.blockRotations = gameState.blockRotations
                   /\ after.lastRotation = gameState.lastRotation
                   /\ after.currentPlayer = nextPlayer(gameState.currentPlayer)]_vars

C12_Witness ==
    \E gameId \in DOMAIN games :
        LET gameState == games[gameId]
            conn == gameState.players[gameState.currentPlayer]
        IN  /\ lastReq = Req("rotateBlock", conn, gameId, "rejected")
            /\ ~gameState.isGameOver
            /\ ~gameState.isWaiting
            /\ atCap(gameState, 3)
            /\ ~atCap(gameState, 1)
            /\ emitted = << >>
            /\ placeDiscAccepted(inAutoMode(gameState), conn, Move(3, 3))

(* C13: a place on an occupied cell or on a row or column outside 0..3, and *)
(* a rotate of a block index outside 0..3, end as a silent rejection: no    *)
(* exception, game state unchanged, nothing emitted.                        *)
C13_IllegalTargetSilentlyRejected ==
    [][/\ \A gameId \in DOMAIN games, move \in PlayMoves :
            (/\ ~isValidMove(games[gameId].board, move)
             /\ Served({"placeDisc"}, lastReq'.conn, gameId)
             /\ OnPlaceDisc(gameId, lastReq'.conn, move))
            => /\ lastReq'.result = "rejected"
               /\ games' = games
               /\ emitted' = << >>
       /\ \A gameId \in DOMAIN games, rotation \in PlayRotations :
            (/\ rotation.blockIndex \notin Blocks
             /\ Served({"rotateBlock"}, lastReq'.conn, gameId)
             /\ OnRotateBlock(gameId, lastReq'.conn, rotation))
            => /\ lastReq'.result = "rejected"
               /\ games' = games
               /\ emitted' = << >>]_vars

(* C14: a reset requested by the holder of the black or the white seat, in  *)
(* any state of the game, gives an empty board, black to move, all counts   *)
(* 0, no outcome, no last move and no last rotation, and keeps the game id, *)
(* both seats, the spectators, the membership maps, the cap and the         *)
(* settings.                                                                *)
C14_ResetBySeatHolder ==
    [][\A gameId \in DOMAIN games, conn \in Conns :
        (holdsSeat(games[gameId], conn) /\ Served({"resetGame"}, conn, gameId))
        => /\ lastReq'.result = "accepted"
           /\ gameId \in DOMAIN games'
           /\ LET before == games[gameId]
                  after == games'[gameId]
              IN  /\ after.board = initializeBoard
                  /\ after.currentPlayer = "black"
                  /\ after.blockRotations = NoRotations
                  /\ after.winner = Null
                  /\ ~after.isGameOver
                  /\ after.lastMove = NoMove
                  /\ after.lastRotation = NoRotation
                  /\ after.gameId = before.gameId
                  /\ after.players = before.players
                  /\ after.spectators = before.spectators
                  /\ after.maxRotations = before.maxRotations
                  /\ after.rotationMode = before.rotationMode
           /\ gameToSockets' = gameToSockets
           /\ socketToGame' = socketToGame]_vars

C14_Witness ==
    \E gameId \in DOMAIN games :
        /\ lastReq = Req("resetGame", games[gameId].players.black, gameId, "accepted")
        /\ moveCount > 0
        /\ games[gameId].isWaiting
        /\ games[gameId].players.white = Vacated
        /\ games[gameId].spectators # << >>
        /\ games[gameId].board = initializeBoard
        /\ games[gameId].blockRotations = NoRotations

(* C15: a join of an unregistered game id is answered gameNotFound, a join  *)
(* without spectator request of a game whose seats are both taken is        *)
(* answered gameFull; either way the games and both membership maps are     *)
(* unchanged and the only message goes to the requester: no gameState is    *)
(* broadcast.                                                               *)
C15_RefusedJoinChangesNothing ==
    [][\A gameId \in GameIds, conn \in Conns :
        Served({"joinGame"}, conn, gameId)
        => LET refused(type) ==
                   /\ lastReq'.result = type
                   /\ emitted' = << Msg(type, conn, gameId, NoPayload) >>
                   /\ games' = games
                   /\ gameToSockets' = gameToSockets
                   /\ socketToGame' = socketToGame
           IN  /\ gameId \notin DOMAIN games => refused("gameNotFound")
               /\ (/\ gameId \in DOMAIN games
                   /\ ~seatVacant(games[gameId])
                   /\ OnJoinGame(conn, gameId, FALSE)) => refused("gameFull")
               /\ lastReq'.result = "gameNotFound" => refused("gameNotFound")
               /\ lastReq'.result = "gameFull" => refused("gameFull")]_vars

C15_Witness ==
    \E gameId \in DOMAIN games :
        /\ lastReq = Req("joinGame", "s3", gameId, "gameFull")
        /\ emitted = << Msg("gameFull", "s3", gameId, NoPayload) >>
        /\ ~holdsSeat(games[gameId], "s3")
        /\ "s3" \notin gameToSockets[gameId]
        /\ "s3" \notin DOMAIN socketToGame

roomBroadcasts(msgs) ==
    {i \in 1..Len(msgs) : msgs[i].type = "gameState" /\ msgs[i].to = "room"}

(* C16: every accepted join, place, rotate and reset of a game emits        *)
(* exactly one gameState to that game's room, and to no other room,         *)
(* carrying the state the game has after the operation; a rejected place,   *)
(* rotate or reset emits none. Handlers run one at a time, so the           *)
(* broadcasts of a room follow the order in which the operations applied.   *)
C16_OneBroadcastPerAcceptedOp ==
    [][\A gameId \in DOMAIN games :
        Served({"joinGame"} \cup MoveOps \cup {"resetGame"}, lastReq'.conn, gameId)
        => IF lastReq'.result \in {"accepted", "black", "white", "spectator"}
           THEN /\ gameId \in DOMAIN games'
                /\ Cardinality(roomBroadcasts(emitted')) = 1
                /\ \A i \in roomBroadcasts(emitted') :
                      /\ emitted'[i].gameId = gameId
                      /\ emitted'[i].payload = games'[gameId]
           ELSE /\ roomBroadcasts(emitted') = {}
                /\ lastReq'.op # "joinGame" => emitted' = << >>]_vars

C16_Witness ==
    \E gameId \in DOMAIN games :
        /\ lastReq.op = "rotateBlock"
        /\ lastReq.result = "accepted"
        /\ lastReq.gameId = gameId
        /\ moveCount >= 2
        /\ games[gameId].lastMove # OpeningState.lastMove
        /\ emitted = << Msg("gameState", "room", gameId, games[gameId]) >>

\* Board, turn, rotation counts, last move and outcome of the local session.
StoreView(state) ==
    << state.board, state.currentPlayer, state.blockRotations, state.lastMove,
       state.winner, state.isGameOver >>

StoreOp(ops) == lastReq'.conn = "store" /\ lastReq'.op \in ops

PlacingOps == {"placeDisc", "playAITurn", "playAITurnTimeout"}

(* C17: in the local session, while the auto-rotation callback of an        *)
(* accepted placement is pending, isProcessingMove is set, and a placeDisc, *)
(* skipTurn or playAITurn served meanwhile changes none of board, turn,     *)
(* rotation counts, last move and outcome.                                  *)
C17_InFlightWindowGuarded ==
    [][/\ timers.rotation # << >> => store.isProcessingMove
       /\ (timers.rotation # << >> /\ StoreOp(PlacingOps \cup {"skipTurn"}))
          => StoreView(store') = StoreView(store)]_vars

(* C18: in the local session an accepted placement puts the disc, changes   *)
(* neither counts, outcome nor turn, and leaves exactly one rotation        *)
(* pending, its own; that callback turns the four cells of the placed       *)
(* cell's block clockwise, leaves every other cell alone, adds one to that  *)
(* block's count only, and only then decides the outcome and hands the turn *)
(* over. The server's placeDisc does the same in one step for a fresh game  *)
(* in auto mode.                                                            *)
C18_AutoRotationFollowsPlacement ==
    [][/\ (StoreOp(PlacingOps) /\ lastReq'.result = "accepted")
          => LET move == store'.lastMove
             IN  /\ store.board[<<move.row, move.col>>] = Null
                 /\ store'.board = [store.board EXCEPT ![<<move.row, move.col>>] = move.player]
                 /\ timers'.rotation = << Move(move.row, move.col) >>
                 /\ store'.blockRotations = store.blockRotations
                 /\ store'.lastRotation = store.lastRotation
                 /\ store'.winner = store.winner
                 /\ store'.isGameOver = store.isGameOver
                 /\ store'.currentPlayer = store.currentPlayer
                 /\ store'.isProcessingMove
       /\ StoreOp({"placeDiscTimeout"})
          => LET move == Head(timers.rotation)
                 top == (move.row \div 2) * 2
                 left == (move.col \div 2) * 2
                 quadrant == (move.row \div 2) * 2 + (move.col \div 2)
                 decided == checkWinner(store'.board)
             IN  /\ \A p \in Pos :
                       (p[1] \notin {top, top + 1} \/ p[2] \notin {left, left + 1})
                       => store'.board[p] = store.board[p]
                 /\ store'.board[<<top, left + 1>>] = store.board[<<top, left>>]
                 /\ store'.board[<<top + 1, left + 1>>] = store.board[<<top, left + 1>>]
                 /\ store'.board[<<top + 1, left>>] = store.board[<<top + 1, left + 1>>]
                 /\ store'.board[<<top, left>>] = store.board[<<top + 1, left>>]
                 /\ \A b \in Blocks :
                       store'.blockRotations[b] =
                           store.blockRotations[b] + (IF b = quadrant THEN 1 ELSE 0)
                 /\ store'.lastRotation = Rotation(quadrant, "clockwise")
                 /\ timers'.rotation = Tail(timers.rotation)
                 /\ IF decided # Null
                    THEN /\ store'.winner = decided
                         /\ store'.isGameOver
                         /\ store'.currentPlayer = store.currentPlayer
                    ELSE /\ store'.winner = store.winner
                         /\ store'.currentPlayer = nextPlayer(store.currentPlayer)
       /\ (/\ StoreOp({"placeDisc"})
           /\ lastReq'.result = "accepted"
           /\ store.board = initializeBoard
           /\ store.currentPlayer = "black")
          => LET move == Move(store'.lastMove.row, store'.lastMove.col)
                 gameState == inAutoMode(joinGameState(initialState(1, "s1"), "s2", FALSE))
                 after == placeDiscState(gameState, "s1", move)
                 quadrant == (move.row \div 2) * 2 + (move.col \div 2)
             IN  /\ placeDiscAccepted(gameState, "s1", move)
                 /\ after.board = rotateBlock(store'.board, quadrant, "clockwise")
                 /\ \A b \in Blocks :
                       after.blockRotations[b] = IF b = quadrant THEN 1 ELSE 0
                 /\ after.winner = checkWinner(after.board)
                 /\ after.currentPlayer = "white"]_vars

\* The ten lines of four cells: rows, columns and the two diagonals.
Lines ==
    {{<<r, c>> : c \in 0..3} : r \in 0..3}
        \cup {{<<r, c>> : r \in 0..3} : c \in 0..3}
        \cup {{<<i, i>> : i \in 0..3}, {<<i, 3 - i>> : i \in 0..3}}

\* Black places (0,0),(0,1),(0,2),(0,3), white answers in row 1.
RowZeroGame ==
    playOpening(joinGameState(initialState(1, "s1"), "s2", FALSE),
                << Move(0, 0), Move(1, 0), Move(0, 1), Move(1, 1),
                   Move(0, 2), Move(1, 2), Move(0, 3) >>)

(* C19: an accepted placement that completes a row, a column or a diagonal  *)
(* of four discs of the mover's colour sets the winner to that colour and   *)
(* ends the game in the same step; black placing (0,0),(0,1),(0,2),(0,3)    *)
(* with white placing elsewhere wins on the fourth placement.               *)
C19_CompletedLineWins ==
    [][\A gameId \in (DOMAIN games) \cap (DOMAIN games') :
        (Served({"placeDisc"}, lastReq'.conn, gameId) /\ lastReq'.result = "accepted")
        => LET before == games[gameId]
               after == games'[gameId]
               mover == after.lastMove.player
               cell == <<after.lastMove.row, after.lastMove.col>>
               completes == \E line \in Lines :
                               /\ cell \in line
                               /\ \A p \in line : after.board[p] = mover
           IN  /\ mover = before.currentPlayer
               /\ before.board[cell] = Null
               /\ after.board = [before.board EXCEPT ![cell] = mover]
               /\ completes
                  => /\ after.winner = mover
                     /\ after.isGameOver
                     /\ RowZeroGame.winner = "black"
                     /\ RowZeroGame.isGameOver
                     /\ RowZeroGame.lastMove = [row |-> 0, col |-> 3, player |-> "black"]]_vars

C19_Witness ==
    \E gameId \in DOMAIN games :
        /\ lastReq.op = "placeDisc"
        /\ lastReq.result = "accepted"
        /\ lastReq.gameId = gameId
        /\ games[gameId].lastMove.player = "black"
        /\ games[gameId].winner = "black"
        /\ games[gameId].isGameOver
        /\ \E line \in Lines :
              /\ <<games[gameId].lastMove.row, games[gameId].lastMove.col>> \in line
              /\ \A p \in line : games[gameId].board[p] = "black"

(* C20: in every reachable state a connection holds at most one role in a   *)
(* game: it is not both black and white, a seat holder is not among the     *)
(* spectators, and no connection is listed twice among the spectators.      *)
C20_OneRolePerConnection ==
    \A gameId \in DOMAIN games, conn \in Conns :
        LET gameState == games[gameId]
        IN  /\ ~(gameState.players.black = conn /\ gameState.players.white = conn)
            /\ ~(holdsSeat(gameState, conn) /\ conn \in Range(gameState.spectators))
            /\ Cardinality({i \in 1..Len(gameState.spectators) :
                                gameState.spectators[i] = conn}) <= 1

\* The complete lines of a board: the lines whose four cells hold one colour.
completeLines(board) ==
    {line \in Lines : \E player \in Players : \A p \in line : board[p] = player}

lineOwner(board, line) == board[CHOOSE p \in line : TRUE]

isBoardFull(board) == \A p \in Pos : board[p] # Null

(* C21: checkWinner returns a player only if that player owns all four      *)
(* cells of some row, column or full diagonal; it returns that player when  *)
(* the board has exactly one complete line; it returns draw exactly when    *)
(* there is no complete line and no empty cell; and it returns none         *)
(* otherwise, in particular on the empty board.                             *)
C21_DetectOutcome ==
    call.fn = "checkWinner"
    => LET board == call.board
           result == call.result
           complete == completeLines(board)
       IN  /\ result \in Players \cup {"draw", Null}
           /\ result \in Players
                => \E line \in complete : lineOwner(board, line) = result
           /\ Cardinality(complete) = 1
                => \A line \in complete : result = lineOwner(board, line)
           /\ result = "draw" <=> (complete = {} /\ isBoardFull(board))
           /\ result = Null <=> (complete = {} /\ ~isBoardFull(board))
           /\ board = initializeBoard => result = Null

\* checkWinner has been applied to a board whose only complete line is the
\* diagonal from the upper right corner, and has returned its owner.
C21_Witness ==
    /\ call.fn = "checkWinner"
    /\ completeLines(call.board) = {{<<i, 3 - i>> : i \in 0..3}}
    /\ call.result = "black"

opposite(direction) ==
    IF direction = "clockwise" THEN "counter-clockwise" ELSE "clockwise"

\* The four cells of block i: rows 2*(i div 2)..+1, columns 2*(i mod 2)..+1.
blockCells(blockIndex) ==
    {p \in Pos : /\ p[1] \in {2 * (blockIndex \div 2), 2 * (blockIndex \div 2) + 1}
                 /\ p[2] \in {2 * (blockIndex % 2), 2 * (blockIndex % 2) + 1}}

(* C22: for every board and every block 0..3, rotating clockwise then       *)
(* counter-clockwise, counter-clockwise then clockwise, or four times       *)
(* clockwise gives a board equal to the original; a rotation changes only   *)
(* the four cells of its block.                                             *)
C22_RotateRoundTrips ==
    call.fn = "rotateBlock"
    => LET board == call.board
           blockIndex == call.blockIndex
           direction == call.direction
           rotated == call.result
       IN  /\ rotateBlock(rotated, blockIndex, opposite(direction)) = board
           /\ rotateBlock(rotateBlock(rotateBlock(rotated, blockIndex, direction),
                                      blockIndex, direction),
                          blockIndex, direction) = board
           /\ \A p \in Pos \ blockCells(blockIndex) : rotated[p] = board[p]

\* A block holding a single disc has been rotated clockwise: the result differs
\* from the board, and rotating back restores it.
C22_Witness ==
    /\ call.fn = "rotateBlock"
    /\ call.blockIndex = 3
    /\ call.direction = "clockwise"
    /\ Cardinality({p \in blockCells(3) : call.board[p] # Null}) = 1
    /\ call.result # call.board
    /\ rotateBlock(call.result, 3, "counter-clockwise") = call.board

(* C23: a clockwise rotation of block i moves the contents of its four      *)
(* cells as new top-left = old bottom-left, new top-right = old top-left,   *)
(* new bottom-right = old top-right, new bottom-left = old bottom-right,    *)
(* the block's cells being rows 2*(i div 2)..+1 and columns 2*(i mod 2)..+1;*)
(* a counter-clockwise rotation is the inverse permutation.                 *)
C23_ClockwisePermutation ==
    call.fn = "rotateBlock"
    => LET old == call.board
           new == call.result
           top == 2 * (call.blockIndex \div 2)
           left == 2 * (call.blockIndex % 2)
           topLeft == <<top, left>>
           topRight == <<top, left + 1>>
           bottomLeft == <<top + 1, left>>
           bottomRight == <<top + 1, left + 1>>
       IN  IF call.direction = "clockwise"
           THEN /\ new[topLeft] = old[bottomLeft]
                /\ new[topRight] = old[topLeft]
                /\ new[bottomRight] = old[topRight]
                /\ new[bottomLeft] = old[bottomRight]
           ELSE /\ new[bottomLeft] = old[topLeft]
                /\ new[topLeft] = old[topRight]
                /\ new[topRight] = old[bottomRight]
                /\ new[bottomRight] = old[bottomLeft]

\* Block 1 with a single disc in its top-left cell (0,2) has been rotated
\* clockwise: the disc is in the top-right cell (0,3).
C23_Witness ==
    /\ call.fn = "rotateBlock"
    /\ call.blockIndex = 1
    /\ call.direction = "clockwise"
    /\ {p \in blockCells(1) : call.board[p] # Null} = {<<0, 2>>}
    /\ {p \in blockCells(1) : call.result[p] # Null} = {<<0, 3>>}

(* C24: placeDisc on an in-range empty cell returns a board equal to the    *)
(* input except that cell, which holds the player; on an occupied or        *)
(* out-of-range cell it returns the board it was given, so the same         *)
(* placement applied to the result returns that result unchanged.           *)
C24_ApplyPlacement ==
    call.fn = "placeDisc"
    => LET board == call.board
           cell == <<call.move.row, call.move.col>>
           result == call.result
           legal == cell \in Pos /\ board[cell] = Null
       IN  /\ legal => result = [p \in Pos |-> IF p = cell THEN call.player ELSE board[p]]
           /\ ~legal => result = board
           /\ placeDisc(result, call.move, call.player) = result

\* White has been placed on the empty cell (1,2) of a board that holds discs.
C24_Witness ==
    /\ call.fn = "placeDisc"
    /\ call.move = Move(1, 2)
    /\ call.player = "white"
    /\ call.board[<<1, 2>>] = Null
    /\ call.board[<<0, 0>>] = "black"
    /\ call.result[<<1, 2>>] = "white"
    /\ call.result # call.board

(* C25: getBlockIndexFromPosition maps the 16 cells onto the blocks 0..3,   *)
(* four cells each, the cells of index i being exactly the 2x2 region that  *)
(* rotateBlock(i) permutes; the board component's own mapping returns the   *)
(* same index for all 16 cells.                                             *)
C25_QuadrantPartition ==
    /\ call.fn = "getBlockIndexFromPosition"
       => LET block == getBlock(call.board, call.result)
          IN  /\ call.result \in Blocks
              /\ call.row \in {block.startRow, block.startRow + 1}
              /\ call.col \in {block.startCol, block.startCol + 1}
              /\ <<call.row, call.col>> \in blockCells(call.result)
              /\ \A blockIndex \in Blocks :
                    {p \in Pos : getBlockIndexFromPosition(p[1], p[2]) = blockIndex}
                        = blockCells(blockIndex)
              /\ \A blockIndex \in Blocks : Cardinality(blockCells(blockIndex)) = 4
              /\ BoardGetBlockIndexFromPosition(call.row, call.col) = call.result
    /\ call.fn = "Board.getBlockIndexFromPosition"
       => call.result = getBlockIndexFromPosition(call.row, call.col)

\* The engine's mapping has been applied to cell (1,2) and has returned 1, the
\* block whose rotation moves that cell.
C25_Witness ==
    /\ call.fn = "getBlockIndexFromPosition"
    /\ call.row = 1
    /\ call.col = 2
    /\ call.result = 1
    /\ call.board[<<1, 2>>] # call.board[<<0, 2>>]
    /\ rotateBlock(call.board, call.result, "clockwise")[<<1, 2>>] # call.board[<<1, 2>>]

\* The empty cells on which the player completes a line of four at once.
winningCells(board, player) ==
    {p \in getAllPossibleMoves(board) :
        \E line \in Lines : p \in line /\ \A q \in line \ {p} : board[q] = player}

resultCell == <<call.result.row, call.result.col>>

(* C26: at master tier, whenever the AI's colour has a placement that       *)
(* immediately completes a line of four, getAIMove returns such a placement *)
(* (the very cell when there is only one), for every outcome of the random  *)
(* draws and whether or not the shared game state is available.             *)
C26_MasterTakesImmediateWin ==
    (/\ call.fn = "getAIMove"
     /\ call.difficulty = "master"
     /\ winningCells(call.board, call.player) # {})
    => resultCell \in winningCells(call.board, call.player)

Tiers == {"easy", "medium", "hard", "expert", "master"}

(* C27: every difficulty tier, easy included, first checks for an immediate *)
(* win: whenever the AI's colour has an immediately winning placement,      *)
(* getAIMove returns an immediately winning placement, for every outcome of *)
(* the random draws.                                                        *)
C27_EveryTierTakesImmediateWin ==
    (/\ call.fn = "getAIMove"
     /\ call.difficulty \in Tiers
     /\ winningCells(call.board, call.player) # {})
    => resultCell \in winningCells(call.board, call.player)

(* C28: at medium tier and above, whenever the AI has no immediately        *)
(* winning placement but the opponent has one, getAIMove returns a cell on  *)
(* which the opponent would win immediately, for every outcome of the       *)
(* random draws.                                                            *)
C28_MediumAndAboveBlock ==
    (/\ call.fn = "getAIMove"
     /\ call.difficulty \in Tiers \ {"easy"}
     /\ winningCells(call.board, call.player) = {}
     /\ winningCells(call.board, opponentOf(call.player)) # {})
    => resultCell \in winningCells(call.board, opponentOf(call.player))

(* C29: for every board, difficulty, player and outcome of the random       *)
(* draws, getAIMove returns none exactly when the board has no empty cell,  *)
(* and otherwise a legal placement: an in-range cell that is empty on the   *)
(* given board.                                                             *)
C29_NoneIffFull ==
    call.fn = "getAIMove"
    => IF \A p \in Pos : call.board[p] # Null
       THEN call.result = NullMove
       ELSE /\ call.result # NullMove
            /\ resultCell \in Pos
            /\ call.board[resultCell] = Null
            /\ isValidMove(call.board, call.result)

\* The hard tier has answered with findTacticalMove's cell on a board where
\* neither colour can win at once and more than one cell is empty.
C29_Witness ==
    /\ call.fn = "getAIMove"
    /\ call.difficulty = "hard"
    /\ winningCells(call.board, call.player) = {}
    /\ winningCells(call.board, opponentOf(call.player)) = {}
    /\ Cardinality(getAllPossibleMoves(call.board)) > 1
    /\ call.result = findTacticalMove(call.board, call.player)
    /\ call.board[resultCell] = Null

(* C30: minimax prefers faster wins and slower losses: of two moves that    *)
(* both lead to a win of the searching player, the one that wins in fewer   *)
(* plies has the strictly higher score, of two that lead to a loss the one  *)
(* that loses in more plies has the strictly higher score, and the root     *)
(* picks an immediate win over a win that takes further moves.              *)
C30_FasterWinsSlowerLosses ==
    call.fn = "findBestMove"
    => LET board == call.board
           player == call.player
           moveValue == call.moveValue
           winsNow(move) == move \in winningCells(board, player)
           losesNext(move) ==
               /\ ~winsNow(move)
               /\ winningCells([board EXCEPT ![move] = player], opponentOf(player)) # {}
       IN  /\ \A fast \in DOMAIN moveValue, slow \in DOMAIN moveValue :
                 (winsNow(fast) /\ ~winsNow(slow) /\ moveValue[slow] > 0)
                 => moveValue[fast] > moveValue[slow]
           /\ \A fast \in DOMAIN moveValue, slow \in DOMAIN moveValue :
                 (losesNext(fast) /\ ~losesNext(slow) /\ moveValue[slow] < 0)
                 => moveValue[slow] > moveValue[fast]
           /\ winningCells(board, player) # {} => resultCell \in winningCells(board, player)

----------------------------------------------------------------------------
discs(board, player) == Cardinality({p \in Pos : board[p] = player})

occupied(board) == Cardinality({p \in Pos : board[p] # Null})

(* C31: in every reachable state the number of occupied cells of a game is  *)
(* the number of placements accepted since its creation or last reset; an   *)
(* accepted placement adds exactly one disc, of the colour that was to      *)
(* move, and an accepted rotation keeps the number of black discs and the   *)
(* number of white discs.                                                   *)
C31_PieceConservation ==
    /\ [](\A gameId \in DOMAIN games :
            /\ gameId \in DOMAIN placements
            /\ occupied(games[gameId].board) = placements[gameId])
    /\ [][\A gameId \in (DOMAIN games) \cap (DOMAIN games') :
            LET before == games[gameId]
                after == games'[gameId]
                mover == before.currentPlayer
                served(op) == Served({op}, lastReq'.conn, gameId) /\ lastReq'.result = "accepted"
            IN  /\ served("placeDisc") =>
                      /\ discs(after.board, mover) = discs(before.board, mover) + 1
                      /\ discs(after.board, nextPlayer(mover)) = discs(before.board, nextPlayer(mover))
                      /\ after.board[<<after.lastMove.row, after.lastMove.col>>] = mover
                /\ served("rotateBlock") =>
                      /\ discs(after.board, "black") = discs(before.board, "black")
                      /\ discs(after.board, "white") = discs(before.board, "white")]_vars

C31_Witness ==
    \E gameId \in DOMAIN games :
        /\ lastReq.op = "rotateBlock"
        /\ lastReq.result = "accepted"
        /\ lastReq.gameId = gameId
        /\ placements[gameId] = Len(Opening) + 2
        /\ occupied(games[gameId].board) = Len(Opening) + 2
        /\ games[gameId].board # rotateBlock(games[gameId].board,
                                             games[gameId].lastRotation.blockIndex, "clockwise")

----------------------------------------------------------------------------
\* socketToGame.get(conn) === gameId
mappedTo(conn, gameId) == conn \in DOMAIN socketToGame /\ socketToGame[conn] = gameId

\* gameToSockets.get(gameId)?.has(conn)
memberOf(conn, gameId) == gameId \in DOMAIN gameToSockets /\ conn \in gameToSockets[gameId]

(* C32: in every reachable state a connection is mapped to a game exactly   *)
(* when it is in that game's member set, so it is a member of at most one   *)
(* room; every registered game has a non-empty member set; and after a      *)
(* disconnect of a connection no registered game has it in a seat or among  *)
(* its spectators.                                                          *)
C32_MembershipMapsAgree ==
    /\ [](/\ \A conn \in Conns : \A gameId \in 1..nextGameId :
                mappedTo(conn, gameId) <=> memberOf(conn, gameId)
          /\ \A conn \in Conns :
                Cardinality({gameId \in DOMAIN gameToSockets : memberOf(conn, gameId)}) <= 1
          /\ \A gameId \in DOMAIN games :
                gameId \in DOMAIN gameToSockets /\ gameToSockets[gameId] # {})
    /\ [][lastReq'.op = "disconnect" =>
            \A gameId \in DOMAIN games' :
                ~holdsSeat(games'[gameId], lastReq'.conn) /\ ~spectates(games'[gameId], lastReq'.conn)]_vars

----------------------------------------------------------------------------
\* The state resetGame leaves: the initial state but for the settings.
freshlyReset(state) ==
    /\ state.board = initializeBoard
    /\ state.currentPlayer = "black"
    /\ state.blockRotations = NoRotations
    /\ state.winner = Null
    /\ ~state.isGameOver
    /\ ~state.isProcessingMove

(* C33: a reset of the local session issued while an auto-rotation callback *)
(* is pending leaves the initial state, and that callback, when it fires    *)
(* before any new placement, leaves the board empty, the rotation counts 0  *)
(* and black to move.                                                       *)
C33_ResetSurvivesPendingRotation ==
    [][/\ (StoreOp({"resetGame", "resetTimeout"}) /\ timers.rotation # << >>)
            => freshlyReset(store')
       /\ (StoreOp({"placeDiscTimeout"}) /\ freshlyReset(store))
            => /\ store'.board = initializeBoard
               /\ store'.blockRotations = NoRotations
               /\ store'.currentPlayer = "black"]_vars

----------------------------------------------------------------------------
(* C34: in local-vs-AI mode a place request of the human made while white   *)
(* is to move and the AI's move is scheduled places no disc, a disc the     *)
(* human places is black, and a disc the AI places is white.                *)
C34_WhiteDiscsOnlyByAI ==
    [][/\ (/\ StoreOp({"placeDisc"})
           /\ store.gameMode = "pve"
           /\ store.currentPlayer = "white"
           /\ timers.ai > 0)
            => /\ lastReq'.result = "rejected"
               /\ store'.board = store.board
       /\ (/\ StoreOp({"placeDisc"})
           /\ store.gameMode = "pve"
           /\ timers.ai > 0
           /\ lastReq'.result = "accepted")
            => /\ store'.lastMove.player = "black"
               /\ discs(store'.board, "white") = discs(store.board, "white")
       /\ (StoreOp({"playAITurn", "playAITurnTimeout"}) /\ lastReq'.result = "accepted")
            => /\ store'.lastMove.player = "white"
               /\ discs(store'.board, "black") = discs(store.board, "black")]_vars

----------------------------------------------------------------------------
whiteToMoveVsAI(state) ==
    /\ state.gameMode = "pve"
    /\ state.currentPlayer = "white"
    /\ ~state.isGameOver

(* C35: in the local session, when scheduled timers eventually fire, a      *)
(* state with the in-flight flag set is eventually followed by one with the *)
(* flag clear, and in local-vs-AI mode a state where white is to move and   *)
(* the game is not over is eventually followed by one where black is to     *)
(* move or the game is over.                                                *)
C35_FlagClearsAndAIMoves ==
    /\ store.isProcessingMove ~> ~store.isProcessingMove
    /\ whiteToMoveVsAI(store) ~> (store.currentPlayer = "black" \/ store.isGameOver)

----------------------------------------------------------------------------
\* The rotations counted on a game's four quadrants.
rotationsOf(gameState) ==
    gameState.blockRotations[0] + gameState.blockRotations[1]
      + gameState.blockRotations[2] + gameState.blockRotations[3]

MaxPlacements == BoardSize * BoardSize

(* C36: between creation or a reset and the next reset a networked game     *)
(* accepts at most 16 placements and at most 3 rotations on each of its 4   *)
(* quadrants, 12 in all, hence at most 28 moves: an accepted placement is   *)
(* counted once and adds no rotation, an accepted rotation is counted once  *)
(* on its quadrant, an accepted reset puts both counts back to 0. The       *)
(* accepted placement that fills the last empty cell leaves the game over   *)
(* with an outcome.                                                         *)
C36_GameIsFinite ==
    /\ [](\A gameId \in DOMAIN games :
            /\ placements[gameId] <= MaxPlacements
            /\ \A blockIndex \in Blocks :
                  games[gameId].blockRotations[blockIndex] <= MaxRotations
            /\ rotationsOf(games[gameId]) <= MaxRotations * Cardinality(Blocks)
            /\ placements[gameId] + rotationsOf(games[gameId])
                  <= MaxPlacements + MaxRotations * Cardinality(Blocks))
    /\ [][\A gameId \in (DOMAIN games) \cap (DOMAIN games') :
            LET before == games[gameId]
                after == games'[gameId]
                served(op) == Served({op}, lastReq'.conn, gameId) /\ lastReq'.result = "accepted"
            IN  /\ served("placeDisc") =>
                      /\ placements'[gameId] = placements[gameId] + 1
                      /\ rotationsOf(after) = rotationsOf(before)
                      /\ isBoardFull(after.board) => after.isGameOver /\ after.winner # Null
                /\ served("rotateBlock") =>
                      /\ placements'[gameId] = placements[gameId]
                      /\ rotationsOf(after) = rotationsOf(before) + 1
                      /\ after.blockRotations[after.lastRotation.blockIndex]
                            = before.blockRotations[after.lastRotation.blockIndex] + 1
                /\ served("resetGame") =>
                      /\ placements'[gameId] = 0
                      /\ rotationsOf(after) = 0
                /\ (lastReq'.gameId # gameId \/ lastReq'.result # "accepted"
                      \/ lastReq'.op \notin {"placeDisc", "rotateBlock", "resetGame"}) =>
                      /\ placements'[gameId] = placements[gameId]
                      /\ rotationsOf(after) = rotationsOf(before)]_vars

C36_Witness ==
    \E gameId \in DOMAIN games :
        /\ lastReq.op = "placeDisc"
        /\ lastReq.result = "accepted"
        /\ lastReq.gameId = gameId
        /\ placements[gameId] = MaxPlacements
        /\ isBoardFull(games[gameId].board)
        /\ games[gameId].isGameOver
        /\ games[gameId].winner = "draw"

----------------------------------------------------------------------------
(* The AI's rotation selector: getOptimalRotation. Its result is the set   *)
(* of rotations the random draws can produce.                              *)

\* The place of a rotation in the array getAllPossibleRotations builds.
rotationOrder(rotation) ==
    2 * rotation.blockIndex + (IF rotation.direction = "clockwise" THEN 0 ELSE 1)

firstRotation(rotations) ==
    CHOOSE r \in rotations : \A q \in rotations : rotationOrder(r) <= rotationOrder(q)

getAllPossibleRotations(blockRotations, maxRotations) ==
    {Rotation(blockIndex, direction) :
        blockIndex \in {b \in Blocks : blockRotations[b] < maxRotations},
        direction \in Directions}

\* getRandomRotation: any quadrant, any direction; it takes no argument.
getAIRotation == {Rotation(blockIndex, direction) : blockIndex \in Blocks, direction \in Directions}

getRotatedBoard(board, rotation) == rotateBlock(board, rotation.blockIndex, rotation.direction)

winningRotations(board, player, possibleRotations) ==
    {r \in possibleRotations : checkWinner(getRotatedBoard(board, r)) = player}

\* The rotations after which the opponent's winning cell is no longer empty.
blockingRotations(board, opponent, possibleRotations) ==
    LET opponentWinningMove == findWinningMove(board, opponent)
    IN  IF opponentWinningMove = NullMove THEN {}
        ELSE {r \in possibleRotations :
                 ~isValidMove(getRotatedBoard(board, r), opponentWinningMove)}

\* The best of the possible rotations by a board evaluation. The scores are
\* not computed here: any possible rotation can be the best; none is (null)
\* when there is no possible rotation.
bestRated(possibleRotations) ==
    IF possibleRotations = {} THEN {NoRotation} ELSE possibleRotations

findOptimizedRotation(board, player, blockRotations, maxRotations) ==
    LET possibleRotations == getAllPossibleRotations(blockRotations, maxRotations)
        winning == winningRotations(board, player, possibleRotations)
    IN  IF possibleRotations = {} THEN {NoRotation}
        ELSE IF winning # {} THEN {firstRotation(winning)}
        ELSE bestRated(possibleRotations)

\* `bestValue > 0 ? bestRotation : null`
findStrategicRotation(blockRotations, maxRotations) ==
    bestRated(getAllPossibleRotations(blockRotations, maxRotations)) \cup {NoRotation}

findExpertRotation(blockRotations, maxRotations) ==
    bestRated(getAllPossibleRotations(blockRotations, maxRotations))

\* `found || getAIRotation()`, and `if (found) return found` before the draw.
orRandom(found) ==
    (found \ {NoRotation}) \cup (IF NoRotation \in found THEN getAIRotation ELSE {})

getOptimalRotation(board, player, blockRotations, maxRotations, difficulty) ==
    LET opponent == opponentOf(player)
        possibleRotations == getAllPossibleRotations(blockRotations, maxRotations)
        winning == winningRotations(board, player, possibleRotations)
        blocking == blockingRotations(board, opponent, possibleRotations)
        optimized == findOptimizedRotation(board, player, blockRotations, maxRotations)
    IN  CASE difficulty = "easy" ->
                orRandom(optimized) \cup getAIRotation
          [] difficulty = "medium" ->
                (IF winning \cup blocking # {}
                 THEN {firstRotation(winning \cup blocking)} ELSE getAIRotation)
                  \cup getAIRotation
          [] difficulty = "hard" ->
                (IF winning # {} THEN {firstRotation(winning)}
                 ELSE IF blocking # {} THEN {firstRotation(blocking)}
                 ELSE orRandom(findStrategicRotation(blockRotations, maxRotations)))
                  \cup getAIRotation
          [] difficulty = "expert" ->
                orRandom((findExpertRotation(blockRotations, maxRotations) \ {NoRotation})
                           \cup (IF NoRotation \in findExpertRotation(blockRotations, maxRotations)
                                 THEN optimized ELSE {}))
                  \cup getAIRotation
          [] difficulty = "master" ->
                IF winning # {} THEN {firstRotation(winning)}
                ELSE IF blocking # {} THEN {firstRotation(blocking)}
                ELSE getAIRotation
          [] OTHER -> orRandom(optimized)

MaxEmptyForRotation == 1

RotationBoards ==
    {initializeBoard}
      \cup {board \in AIBoards : Cardinality(getAllPossibleMoves(board)) <= MaxEmptyForRotation}

\* A cap and counts that have not passed it.
RotationCaps == {1, MaxRotations}

rotationCounts(maxRotations) == [Blocks -> {0, maxRotations}]

InitRotation ==
    /\ connected = {}
    /\ games = EmptyMap
    /\ gameToSockets = EmptyMap
    /\ socketToGame = EmptyMap
    /\ nextGameId = 1
    /\ emitted = << >>
    /\ lastReq = Req("init", Null, 0, "none")
    /\ joinCount = 0
    /\ moveCount = 0
    /\ store = initialGameState
    /\ timers = NoTimers
    /\ call \in {[fn |-> "none", board |-> board] : board \in RotationBoards}
    /\ placements = EmptyMap
    /\ client = NoClient

ApplyGetOptimalRotation(player, blockRotations, maxRotations, difficulty) ==
    /\ call.fn = "none"
    /\ \E result \in getOptimalRotation(call.board, player, blockRotations, maxRotations, difficulty) :
          call' = [fn |-> "getOptimalRotation", board |-> call.board, player |-> player,
                   blockRotations |-> blockRotations, maxRotations |-> maxRotations,
                   difficulty |-> difficulty, result |-> result]
    /\ engineFrame

NextRotation ==
    \E player \in Players, maxRotations \in RotationCaps, difficulty \in Difficulties :
        \E blockRotations \in rotationCounts(maxRotations) :
            ApplyGetOptimalRotation(player, blockRotations, maxRotations, difficulty)

SpecRotation == InitRotation /\ [][NextRotation]_vars

(* C37: whatever the difficulty, the board, the rotation counts, the cap    *)
(* and the random draws, the rotation the AI's selector returns is of a     *)
(* quadrant whose rotation count is strictly below the cap.                 *)
C37_AIRotationBelowCap ==
    call.fn = "getOptimalRotation" =>
        /\ call.result.blockIndex \in Blocks
        /\ call.blockRotations[call.result.blockIndex] < call.maxRotations

----------------------------------------------------------------------------
(* The connection client: SocketClient. client.socket is null, or the      *)
(* state of the socket.io socket the client holds: "opening" while it      *)
(* tries to connect (the first attempt and socket.io's own retries),       *)
(* "open" once connected, "closed" once it has given up or was closed by   *)
(* the server.                                                             *)

MaxSockets == 4

clientFrame ==
    UNCHANGED <<serverVars, joinCount, moveCount, store, timers, call, placements>>

ClientServed(op, result) == lastReq' = Req(op, "client", 0, result)

\* connect(), with the connectWithFallback() it calls.
ClientConnect ==
    /\ client.sockets < MaxSockets
    /\ IF client.socket # Null
       THEN /\ UNCHANGED client
            /\ ClientServed("connect", "ignored")
       ELSE IF client.isConnecting
       THEN /\ client' = [client EXCEPT !.status = "connecting", !.reconnectAttempts = 0]
            /\ ClientServed("connect", "notStarted")
       ELSE /\ client' = [client EXCEPT !.status = "connecting", !.reconnectAttempts = 0,
                                        !.isConnecting = TRUE, !.socket = "opening",
                                        !.sockets = @ + 1]
            /\ ClientServed("connect", "started")
    /\ clientFrame

\* The socket's 'connect' event.
SocketOnConnect ==
    /\ client.socket = "opening"
    /\ client' = [client EXCEPT !.socket = "open", !.status = "connected"]
    /\ ClientServed("onConnect", "fired")
    /\ clientFrame

\* The socket's 'connect_error' event; socket.io then retries or gives up.
SocketOnConnectError(socket) ==
    /\ client.socket = "opening"
    /\ client' = [client EXCEPT !.socket = socket, !.status = "disconnected",
                                !.isConnecting = FALSE]
    /\ ClientServed("onConnectError", "fired")
    /\ clientFrame

\* The socket's 'disconnect' event; socket.io then reconnects or stays closed.
SocketOnDisconnect(socket) ==
    /\ client.socket = "open"
    /\ client' = [client EXCEPT !.socket = socket, !.status = "disconnected"]
    /\ ClientServed("onDisconnect", "fired")
    /\ clientFrame

\* The socket's 'joinGame' event.
SocketOnJoinGame(gameId, playerId) ==
    /\ client.socket = "open"
    /\ client' = [client EXCEPT !.gameId = gameId, !.playerId = playerId]
    /\ ClientServed("onJoinGame", "fired")
    /\ clientFrame

\* disconnect(), with the cleanupSocket() it calls.
ClientDisconnect ==
    /\ client' = [client EXCEPT !.socket = Null, !.status = "disconnected",
                                !.gameId = Null, !.playerId = Null,
                                !.reconnectAttempts = 0]
    /\ ClientServed("disconnect", "done")
    /\ clientFrame

AfterFailure == {"opening", "closed"}

NextClient ==
    \/ ClientConnect
    \/ SocketOnConnect
    \/ \E socket \in AfterFailure : SocketOnConnectError(socket)
    \/ \E socket \in AfterFailure : SocketOnDisconnect(socket)
    \/ SocketOnJoinGame("g1", "s1")
    \/ ClientDisconnect

SpecClient == InitLocal /\ [][NextClient]_vars

(* C38: a connect() issued while the client holds no socket and its status  *)
(* is disconnected, whatever connects, connection successes, connection     *)
(* errors and disconnect() calls came before, creates a new socket and sets *)
(* the status to connecting.                                                *)
C38_ConnectAlwaysStartsAttempt ==
    [][(/\ lastReq'.conn = "client"
        /\ lastReq'.op = "connect"
        /\ client.socket = Null
        /\ client.status = "disconnected")
        => /\ client'.socket = "opening"
           /\ client'.sockets = client.sockets + 1
           /\ client'.status = "connecting"]_vars

====
